---- MODULE Spec2Model ----
(***************************************************************************)
(* The quota reservation ledger of the presentation bot                    *)
(* (TelegramService, src/src/telegram/telegram.service.ts lines 1-333) and *)
(* the handler that drives it (TelegramUpdate.handleImagePreference-       *)
(* Selection, src/unnamed/part_002 lines 632-805).                         *)
(* PresentationService (src/src/telegram/presentation.service.ts) adds the  *)
(* wizard's flow map (lines 141-395), the provider cascades of             *)
(* generateSlides (760-828), normalizeTopicForLanguage (559-611) and       *)
(* buildImageSearchParams (965-1026), and the image search of              *)
(* attachImagesToSlides (830-963).                                         *)
(*                                                                         *)
(* Time is measured in ticks of a discrete clock.  The table               *)
(* "presentations" is a sequence of rows; the serial primary key of a row  *)
(* is its index in the sequence.                                           *)
(***************************************************************************)
EXTENDS Integers, Sequences, FiniteSets, TLC

VARIABLES
  clock,          \* the wall clock (new Date() and the database's now())
  presentations,  \* table presentations: rows [userId, createdAt, status,
                  \* metadata]
  last,           \* the last ledger call made by a client and what it returned
  hs,             \* the running invocations of handleImagePreferenceSelection
  rowLock,        \* telegram_users row locks: internal user id -> holder
  flows,          \* PresentationService.flows: Telegram id -> FlowState
  cascade         \* one run of a cascade of PresentationService

vars == <<clock, presentations, last, hs, rowLock, flows, cascade>>

\* the state of PresentationService
presentationService == <<flows, cascade>>

(***************************************************************************)
(* Bounds of the model.                                                    *)
(***************************************************************************)
MaxTime == 2
MaxRows == 3
MaxRecords == 4
NumHandlers == 2
NumUsers == 1
MaxKeys == 2

(***************************************************************************)
(* Program constants.  RATE_LIMIT_WINDOW_MS is 24h in the source; here the *)
(* window is one tick of the clock (one tick stands for 24h).              *)
(***************************************************************************)
DAILY_GENERATION_LIMIT == 3
RATE_LIMIT_WINDOW_MS == 1

null == -1

\* an optional value: undefined, or the value
None == <<>>
Some(v) == <<v>>

\* metadata = {} (the default parameter of consumeGeneration)
EmptyMetadata ==
  [prompt |-> None, language |-> None, templateId |-> None,
   pageCount |-> None, useImages |-> None]

Statuses == {"pending", "completed", "failed"}

(***************************************************************************)
(* Table telegram_users as the ledger reads it: rows exist for the         *)
(* Telegram ids 1, 2 and 3; 1 and 2 completed registration (phone number   *)
(* set), 3 did not; Telegram id 4 has no row.                              *)
(***************************************************************************)
TelegramIds == 1..4

telegramUsers ==
  (1 :> [id |-> 11, phoneNumber |-> TRUE]) @@
  (2 :> [id |-> 12, phoneNumber |-> TRUE]) @@
  (3 :> [id |-> 13, phoneNumber |-> FALSE])

RegisteredIds == {t \in DOMAIN telegramUsers : telegramUsers[t].phoneNumber}

\* the users who press the final button of the wizard in Spec
HandlerUsers == {t \in RegisteredIds : t <= NumUsers}

UserIds == {telegramUsers[t].id : t \in DOMAIN telegramUsers}

Max(a, b) == IF a >= b THEN a ELSE b

MinOf(S) == CHOOSE x \in S : \A y \in S : x <= y

(***************************************************************************)
(* Pure parts of TelegramService.                                          *)
(***************************************************************************)
getWindowStart(referenceDate) == referenceDate - RATE_LIMIT_WINDOW_MS

usageRowsWrong(P, userId, windowStart) ==
  {i \in DOMAIN P : /\ P[i].userId = userId
                    /\ P[i].createdAt >= windowStart}

\* the rows matched by the where clause of the usage query
usageRows(P, userId, windowStart) ==
  {i \in DOMAIN P : /\ P[i].userId = userId
                    /\ P[i].createdAt >= windowStart
                    /\ P[i].status # "failed"}

\* the aggregate the usage query returns: count(id), min(created_at)
usageQuery(P, userId, windowStart) ==
  LET rows == usageRows(P, userId, windowStart)
  IN  [usedCount |-> Cardinality(rows),
       oldestCreatedAt |-> IF rows = {} THEN null
                           ELSE MinOf({P[i].createdAt : i \in rows})]

buildBlockedQuotaWrong(usedCount, oldestCreatedAt, referenceDate) ==
  [allowed |-> FALSE,
   usedToday |-> usedCount,
   remainingToday |-> 0,
   dailyLimit |-> DAILY_GENERATION_LIMIT,
   nextAvailableAt |-> referenceDate + RATE_LIMIT_WINDOW_MS]

buildBlockedQuota(usedCount, oldestCreatedAt, referenceDate) ==
  [allowed |-> FALSE,
   usedToday |-> usedCount,
   remainingToday |-> 0,
   dailyLimit |-> DAILY_GENERATION_LIMIT,
   nextAvailableAt |-> IF oldestCreatedAt # null
                       THEN oldestCreatedAt + RATE_LIMIT_WINDOW_MS
                       ELSE referenceDate + RATE_LIMIT_WINDOW_MS]

allowedQuota(usedToday) ==
  [allowed |-> TRUE,
   usedToday |-> usedToday,
   remainingToday |-> Max(DAILY_GENERATION_LIMIT - usedToday, 0),
   dailyLimit |-> DAILY_GENERATION_LIMIT,
   nextAvailableAt |-> null]

\* what a call that throws leaves in the caller's hands
Thrown ==
  [thrown |-> TRUE, allowed |-> FALSE, usedToday |-> null,
   remainingToday |-> null, dailyLimit |-> null, nextAvailableAt |-> null,
   reservationId |-> null, recovered |-> null]

Returned(quota, reservationId) ==
  [thrown |-> FALSE, allowed |-> quota.allowed, usedToday |-> quota.usedToday,
   remainingToday |-> quota.remainingToday, dailyLimit |-> quota.dailyLimit,
   nextAvailableAt |-> quota.nextAvailableAt,
   reservationId |-> reservationId, recovered |-> null]

Void ==
  [thrown |-> FALSE, allowed |-> FALSE, usedToday |-> null,
   remainingToday |-> null, dailyLimit |-> null, nextAvailableAt |-> null,
   reservationId |-> null, recovered |-> null]

insertReservationWrong(P, userId, txStart, metadata) ==
  Append(P, [userId |-> userId, createdAt |-> txStart, status |-> "completed",
             metadata |-> metadata])

\* insert into presentations (user_id, status, metadata) returning id;
\* created_at defaults to now(), the start time of the transaction
insertReservation(P, userId, txStart, metadata) ==
  Append(P, [userId |-> userId, createdAt |-> txStart, status |-> "pending",
             metadata |-> metadata])

\* consumeGeneration run alone: [presentations, result]
consumeGeneration(P, telegramId, metadata, now, txStart) ==
  IF telegramId \notin DOMAIN telegramUsers
    THEN [presentations |-> P, result |-> Thrown]
  ELSE IF ~telegramUsers[telegramId].phoneNumber
    THEN [presentations |-> P, result |-> Thrown]
  ELSE
    LET lockedUser == telegramUsers[telegramId]
        usage == usageQuery(P, lockedUser.id, getWindowStart(now))
    IN  IF usage.usedCount >= DAILY_GENERATION_LIMIT
          THEN [presentations |-> P,
                result |-> Returned(buildBlockedQuota(usage.usedCount,
                                       usage.oldestCreatedAt, now), null)]
          ELSE [presentations |->
                  insertReservation(P, lockedUser.id, txStart, metadata),
                result |-> Returned(allowedQuota(usage.usedCount + 1),
                                    Len(P) + 1)]

updateGenerationStatusWrong(P, presentationId, status) ==
  [i \in DOMAIN P |-> [P[i] EXCEPT !.status = status]]

updateGenerationStatus(P, presentationId, status) ==
  [i \in DOMAIN P |->
     IF i = presentationId THEN [P[i] EXCEPT !.status = status] ELSE P[i]]

markGenerationAsFailedIfPendingWrong(P, presentationId) ==
  [i \in DOMAIN P |->
     IF i = presentationId THEN [P[i] EXCEPT !.status = "failed"] ELSE P[i]]

markGenerationAsFailedIfPending(P, presentationId) ==
  [i \in DOMAIN P |->
     IF i = presentationId /\ P[i].status = "pending"
       THEN [P[i] EXCEPT !.status = "failed"]
       ELSE P[i]]

recoverPendingGenerationsAfterProcessFailureWrong(P) ==
  [presentations |-> [i \in DOMAIN P |-> [P[i] EXCEPT !.status = "failed"]],
   recovered |-> Len(P)]

\* [presentations, recovered]: the update and the length of its returning list
recoverPendingGenerationsAfterProcessFailure(P) ==
  [presentations |->
     [i \in DOMAIN P |->
        IF P[i].status = "pending" THEN [P[i] EXCEPT !.status = "failed"]
                                   ELSE P[i]],
   recovered |-> Cardinality({i \in DOMAIN P : P[i].status = "pending"})]

getGenerationAvailability(P, telegramId, now) ==
  IF telegramId \notin DOMAIN telegramUsers THEN Thrown
  ELSE IF ~telegramUsers[telegramId].phoneNumber THEN Thrown
  ELSE
    LET user == telegramUsers[telegramId]
        usage == usageQuery(P, user.id, getWindowStart(now))
    IN  IF usage.usedCount >= DAILY_GENERATION_LIMIT
          THEN Returned(buildBlockedQuota(usage.usedCount,
                                          usage.oldestCreatedAt, now), null)
          ELSE Returned(allowedQuota(usage.usedCount), null)

getPresentationStatusWrong(P, presentationId) == "failed"

getPresentationStatus(P, presentationId) ==
  IF presentationId \in DOMAIN P THEN P[presentationId].status ELSE "undefined"

(***************************************************************************)
(* PresentationService: the flow map and its transitions.  A FlowState is  *)
(* a record whose optional fields are None or Some(value); the brief       *)
(* answers are a map from the keys answered so far to the stored strings.  *)
(* A string that the code trims is a sequence of characters.               *)
(***************************************************************************)
BriefAnswerKeys ==
  {"targetAudience", "presenterRole", "presentationGoal", "toneStyle"}

RECURSIVE trimStart(_)
trimStart(s) ==
  IF s # <<>> /\ Head(s) = " " THEN trimStart(Tail(s)) ELSE s

RECURSIVE trimEnd(_)
trimEnd(s) ==
  IF s # <<>> /\ s[Len(s)] = " " THEN trimEnd(SubSeq(s, 1, Len(s) - 1)) ELSE s

trim(s) == trimEnd(trimStart(s))

\* !x for an optional string, and for an optional number
Falsy(o) == o = None \/ o[1] = ""
FalsyNumber(o) == o = None \/ o[1] = 0

\* an object literal with none of the optional fields
FlowState(step) ==
  [step |-> step, language |-> None, topic |-> None, templateId |-> None,
   pageCount |-> None, useImages |-> None, askTopicMessageId |-> None,
   briefAnswers |-> None]

NoFlows == <<>>

\* this.flows.set(telegramId, state)
FlowsSet(F, telegramId, state) ==
  [k \in DOMAIN F \cup {telegramId} |-> IF k = telegramId THEN state ELSE F[k]]

hasAllBriefAnswersWrong(briefAnswers, requiredKeys) == briefAnswers # None

hasAllBriefAnswers(briefAnswers, requiredKeys) ==
  IF briefAnswers = None THEN FALSE
  ELSE \A key \in requiredKeys :
         /\ key \in DOMAIN briefAnswers[1]
         /\ Len(trim(briefAnswers[1][key])) > 0

startFlow(F, telegramId) ==
  FlowsSet(F, telegramId, FlowState("awaiting_language"))

setLanguage(F, telegramId, language) ==
  IF telegramId \notin DOMAIN F THEN [flows |-> F, result |-> FALSE]
  ELSE IF F[telegramId].step # "awaiting_language"
    THEN [flows |-> F, result |-> FALSE]
  ELSE [flows |-> FlowsSet(F, telegramId,
                    [FlowState("awaiting_topic") EXCEPT
                       !.language = Some(language)]),
        result |-> TRUE]

setAskTopicMessageId(F, telegramId, messageId) ==
  IF telegramId \notin DOMAIN F THEN [flows |-> F, result |-> FALSE]
  ELSE IF F[telegramId].step # "awaiting_topic"
    THEN [flows |-> F, result |-> FALSE]
  ELSE [flows |-> FlowsSet(F, telegramId,
                    [F[telegramId] EXCEPT
                       !.askTopicMessageId = Some(messageId)]),
        result |-> TRUE]

setTopic(F, telegramId, topic) ==
  IF telegramId \notin DOMAIN F THEN [flows |-> F, result |-> FALSE]
  ELSE LET state == F[telegramId]
       IN  IF state.step # "awaiting_topic" \/ Falsy(state.language)
             THEN [flows |-> F, result |-> FALSE]
             ELSE [flows |-> FlowsSet(F, telegramId,
                      [FlowState("awaiting_brief_answer") EXCEPT
                         !.language = state.language,
                         !.topic = Some(topic),
                         !.askTopicMessageId = state.askTopicMessageId,
                         !.briefAnswers = Some(<<>>)]),
                   result |-> TRUE]

setBriefAnswerWrong(F, telegramId, key, answer) ==
  IF telegramId \notin DOMAIN F THEN [flows |-> F, result |-> None]
  ELSE LET state == F[telegramId]
           updatedState ==
             [state EXCEPT !.step = "awaiting_brief_answer",
                           !.briefAnswers = Some([k \in {key} |-> answer])]
       IN  IF \/ state.step # "awaiting_brief_answer"
              \/ Falsy(state.language)
              \/ Falsy(state.topic)
             THEN [flows |-> F, result |-> None]
           ELSE IF trim(answer) = <<>>
             THEN [flows |-> F, result |-> None]
           ELSE [flows |-> FlowsSet(F, telegramId, updatedState),
                 result |-> Some(updatedState)]

setBriefAnswer(F, telegramId, key, answer) ==
  IF telegramId \notin DOMAIN F THEN [flows |-> F, result |-> None]
  ELSE LET state == F[telegramId]
           normalizedAnswer == trim(answer)
           old == IF state.briefAnswers = None THEN <<>>
                  ELSE state.briefAnswers[1]
           updatedState ==
             [state EXCEPT
                !.step = "awaiting_brief_answer",
                !.briefAnswers =
                   Some([k \in DOMAIN old \cup {key} |->
                           IF k = key THEN normalizedAnswer ELSE old[k]])]
       IN  IF \/ state.step # "awaiting_brief_answer"
              \/ Falsy(state.language)
              \/ Falsy(state.topic)
             THEN [flows |-> F, result |-> None]
           ELSE IF normalizedAnswer = <<>>
             THEN [flows |-> F, result |-> None]
           ELSE [flows |-> FlowsSet(F, telegramId, updatedState),
                 result |-> Some(updatedState)]

completeBriefAnswers(F, telegramId, requiredKeys) ==
  IF telegramId \notin DOMAIN F THEN [flows |-> F, result |-> None]
  ELSE LET state == F[telegramId]
           updatedState ==
             [FlowState("awaiting_template") EXCEPT
                !.language = state.language,
                !.topic = state.topic,
                !.briefAnswers = state.briefAnswers]
       IN  IF \/ state.step # "awaiting_brief_answer"
              \/ Falsy(state.language)
              \/ Falsy(state.topic)
              \/ ~hasAllBriefAnswers(state.briefAnswers, requiredKeys)
             THEN [flows |-> F, result |-> None]
             ELSE [flows |-> FlowsSet(F, telegramId, updatedState),
                   result |-> Some(updatedState)]

backToTopic(F, telegramId) ==
  IF telegramId \notin DOMAIN F THEN [flows |-> F, result |-> None]
  ELSE LET state == F[telegramId]
           updatedState ==
             [FlowState("awaiting_topic") EXCEPT !.language = state.language]
       IN  IF Falsy(state.language) \/ state.step = "awaiting_language"
             THEN [flows |-> F, result |-> None]
             ELSE [flows |-> FlowsSet(F, telegramId, updatedState),
                   result |-> Some(updatedState)]

setTemplate(F, telegramId, templateId) ==
  IF telegramId \notin DOMAIN F THEN [flows |-> F, result |-> FALSE]
  ELSE LET state == F[telegramId]
       IN  IF \/ state.step # "awaiting_template"
              \/ Falsy(state.topic)
              \/ Falsy(state.language)
              \/ ~hasAllBriefAnswers(state.briefAnswers, BriefAnswerKeys)
             THEN [flows |-> F, result |-> FALSE]
             ELSE [flows |-> FlowsSet(F, telegramId,
                      [FlowState("awaiting_page_count") EXCEPT
                         !.language = state.language,
                         !.topic = state.topic,
                         !.templateId = Some(templateId),
                         !.briefAnswers = state.briefAnswers]),
                   result |-> TRUE]

backToTemplate(F, telegramId) ==
  IF telegramId \notin DOMAIN F THEN [flows |-> F, result |-> FALSE]
  ELSE LET state == F[telegramId]
       IN  IF \/ state.step # "awaiting_page_count"
              \/ Falsy(state.language)
              \/ Falsy(state.topic)
             THEN [flows |-> F, result |-> FALSE]
             ELSE [flows |-> FlowsSet(F, telegramId,
                      [FlowState("awaiting_template") EXCEPT
                         !.language = state.language,
                         !.topic = state.topic,
                         !.briefAnswers = state.briefAnswers]),
                   result |-> TRUE]

setPageCount(F, telegramId, pageCount) ==
  IF telegramId \notin DOMAIN F THEN [flows |-> F, result |-> FALSE]
  ELSE LET state == F[telegramId]
       IN  IF \/ state.step # "awaiting_page_count"
              \/ Falsy(state.language)
              \/ Falsy(state.topic)
              \/ FalsyNumber(state.templateId)
             THEN [flows |-> F, result |-> FALSE]
             ELSE [flows |-> FlowsSet(F, telegramId,
                      [FlowState("awaiting_image_preference") EXCEPT
                         !.language = state.language,
                         !.topic = state.topic,
                         !.templateId = state.templateId,
                         !.pageCount = Some(pageCount),
                         !.briefAnswers = state.briefAnswers]),
                   result |-> TRUE]

backToPageCount(F, telegramId) ==
  IF telegramId \notin DOMAIN F THEN [flows |-> F, result |-> FALSE]
  ELSE LET state == F[telegramId]
       IN  IF \/ state.step # "awaiting_image_preference"
              \/ Falsy(state.language)
              \/ Falsy(state.topic)
              \/ FalsyNumber(state.templateId)
             THEN [flows |-> F, result |-> FALSE]
             ELSE [flows |-> FlowsSet(F, telegramId,
                      [FlowState("awaiting_page_count") EXCEPT
                         !.language = state.language,
                         !.topic = state.topic,
                         !.templateId = state.templateId,
                         !.briefAnswers = state.briefAnswers]),
                   result |-> TRUE]

setGeneratingAnyStep(F, telegramId, useImages) ==
  IF telegramId \notin DOMAIN F THEN [flows |-> F, result |-> None]
  ELSE LET state == F[telegramId]
           updatedState ==
             [FlowState("generating") EXCEPT
                !.language = state.language,
                !.topic = state.topic,
                !.templateId = state.templateId,
                !.pageCount = state.pageCount,
                !.useImages = Some(useImages),
                !.briefAnswers = state.briefAnswers]
       IN  IF \/ Falsy(state.language)
              \/ Falsy(state.topic)
              \/ FalsyNumber(state.templateId)
              \/ FalsyNumber(state.pageCount)
             THEN [flows |-> F, result |-> None]
             ELSE [flows |-> FlowsSet(F, telegramId, updatedState),
                   result |-> Some(updatedState)]

setGeneratingWrong(F, telegramId, useImages) ==
  IF telegramId \notin DOMAIN F THEN [flows |-> F, result |-> None]
  ELSE LET state == F[telegramId]
           updatedState ==
             [FlowState("generating") EXCEPT
                !.language = state.language,
                !.topic = state.topic,
                !.templateId = state.templateId,
                !.pageCount = state.pageCount,
                !.briefAnswers = state.briefAnswers]
       IN  IF state.step # "awaiting_image_preference"
             THEN [flows |-> F, result |-> None]
             ELSE [flows |-> FlowsSet(F, telegramId, updatedState),
                   result |-> Some(updatedState)]

setGenerating(F, telegramId, useImages) ==
  IF telegramId \notin DOMAIN F THEN [flows |-> F, result |-> None]
  ELSE LET state == F[telegramId]
           updatedState ==
             [FlowState("generating") EXCEPT
                !.language = state.language,
                !.topic = state.topic,
                !.templateId = state.templateId,
                !.pageCount = state.pageCount,
                !.useImages = Some(useImages),
                !.briefAnswers = state.briefAnswers]
       IN  IF \/ state.step # "awaiting_image_preference"
              \/ Falsy(state.language)
              \/ Falsy(state.topic)
              \/ FalsyNumber(state.templateId)
              \/ FalsyNumber(state.pageCount)
             THEN [flows |-> F, result |-> None]
             ELSE [flows |-> FlowsSet(F, telegramId, updatedState),
                   result |-> Some(updatedState)]

\* this.flows.delete(telegramId)
clearFlow(F, telegramId) ==
  [k \in DOMAIN F \ {telegramId} |-> F[k]]

(***************************************************************************)
(* One run of the wizard: the answers of one user, given in order.         *)
(***************************************************************************)
Inputs ==
  [language |-> "en",
   topic |-> "Climate policy",
   targetAudience |-> <<" ", "students">>,
   presenterRole |-> <<"teacher", " ">>,
   presentationGoal |-> <<"inform">>,
   toneStyle |-> <<" ", "formal", " ">>,
   templateId |-> 2,
   pageCount |-> 6,
   useImages |-> TRUE]

\* startFlow and every forward transition up to the image question;
\* result: every call reported success
wizard(F, telegramId) ==
  LET f0 == startFlow(F, telegramId)
      r1 == setLanguage(f0, telegramId, Inputs.language)
      r2 == setTopic(r1.flows, telegramId, Inputs.topic)
      r3 == setBriefAnswer(r2.flows, telegramId, "targetAudience",
                           Inputs.targetAudience)
      r4 == setBriefAnswer(r3.flows, telegramId, "presenterRole",
                           Inputs.presenterRole)
      r5 == setBriefAnswer(r4.flows, telegramId, "presentationGoal",
                           Inputs.presentationGoal)
      r6 == setBriefAnswer(r5.flows, telegramId, "toneStyle",
                           Inputs.toneStyle)
      r7 == completeBriefAnswers(r6.flows, telegramId, BriefAnswerKeys)
      r8 == setTemplate(r7.flows, telegramId, Inputs.templateId)
      r9 == setPageCount(r8.flows, telegramId, Inputs.pageCount)
  IN  [flows |-> r9.flows,
       result |-> /\ r1.result /\ r2.result
                  /\ r3.result # None /\ r4.result # None
                  /\ r5.result # None /\ r6.result # None
                  /\ r7.result # None /\ r8.result /\ r9.result]

reservationMetadataWrong(state, useImages) ==
  [prompt |-> state.topic, language |-> state.language,
   templateId |-> state.pageCount, pageCount |-> state.templateId,
   useImages |-> Some(useImages)]

\* the metadata the handler hands to consumeGeneration
reservationMetadata(state, useImages) ==
  [prompt |-> state.topic, language |-> state.language,
   templateId |-> state.templateId, pageCount |-> state.pageCount,
   useImages |-> Some(useImages)]

\* generateSlides has not been called
NoCascade == [pc |-> "none"]

(***************************************************************************)
(* State shared by the specifications.                                     *)
(***************************************************************************)
NoCall == [op |-> "none", arg |-> null, status |-> "none", res |-> Void]

Handlers == 1..NumHandlers

IdleHandler ==
  [pc |-> "idle", user |-> null, now |-> null, txStart |-> null,
   usedCount |-> null, reservationId |-> null,
   state |-> None, useImages |-> FALSE,
   generatedPresentation |-> FALSE, delivered |-> FALSE, marked |-> FALSE,
   failureSent |-> FALSE]

Init ==
  /\ clock = 0
  /\ presentations = <<>>
  /\ last = NoCall
  /\ hs = [h \in Handlers |-> IdleHandler]
  /\ rowLock = [u \in UserIds |-> 0]
  /\ flows = NoFlows
  /\ cascade = NoCascade

Tick ==
  /\ clock < MaxTime
  /\ clock' = clock + 1
  /\ last' = NoCall
  /\ UNCHANGED <<presentations, hs, rowLock>>
  /\ UNCHANGED presentationService

(***************************************************************************)
(* SpecLedger: the ledger's operations called one at a time, with every    *)
(* argument the signatures admit.  The callers are the Telegram ids 1, 3   *)
(* and 4; user 2 makes no call here, the table may hold a row of that user *)
(* from before.                                                            *)
(***************************************************************************)
Callers == TelegramIds \ {2}

InitLedger ==
  /\ clock = 0
  /\ \/ presentations = <<>>
     \/ \E s \in Statuses :
          presentations = <<[userId |-> telegramUsers[2].id, createdAt |-> 0,
                             status |-> s, metadata |-> EmptyMetadata]>>
  /\ last = NoCall
  /\ hs = [h \in Handlers |-> IdleHandler]
  /\ rowLock = [u \in UserIds |-> 0]
  /\ flows = NoFlows
  /\ cascade = NoCascade

CallConsumeGeneration ==
  \E t \in Callers :
    LET r == consumeGeneration(presentations, t, EmptyMetadata, clock, clock)
    IN  /\ Len(r.presentations) <= MaxRows
        /\ presentations' = r.presentations
        /\ last' = [op |-> "consumeGeneration", arg |-> t, status |-> "none",
                    res |-> r.result]
        /\ UNCHANGED <<clock, hs, rowLock>>
        /\ UNCHANGED presentationService

CallUpdateGenerationStatus ==
  \E id \in 1..(Len(presentations) + 1), s \in {"completed", "failed"} :
    /\ presentations' = updateGenerationStatus(presentations, id, s)
    /\ last' = [op |-> "updateGenerationStatus", arg |-> id, status |-> s,
                res |-> Void]
    /\ UNCHANGED <<clock, hs, rowLock>>
    /\ UNCHANGED presentationService

CallMarkGenerationAsFailedIfPending ==
  \E id \in 1..(Len(presentations) + 1) :
    /\ presentations' = markGenerationAsFailedIfPending(presentations, id)
    /\ last' = [op |-> "markGenerationAsFailedIfPending", arg |-> id,
                status |-> "none", res |-> Void]
    /\ UNCHANGED <<clock, hs, rowLock>>
    /\ UNCHANGED presentationService

CallRecoverPendingGenerations ==
  LET r == recoverPendingGenerationsAfterProcessFailure(presentations)
  IN  /\ presentations' = r.presentations
      /\ last' = [op |-> "recoverPendingGenerationsAfterProcessFailure",
                  arg |-> null, status |-> "none",
                  res |-> [Void EXCEPT !.recovered = r.recovered]]
      /\ UNCHANGED <<clock, hs, rowLock>>
      /\ UNCHANGED presentationService

CallGetGenerationAvailability ==
  \E t \in Callers :
    /\ last' = [op |-> "getGenerationAvailability", arg |-> t,
                status |-> "none",
                res |-> getGenerationAvailability(presentations, t, clock)]
    /\ UNCHANGED <<clock, presentations, hs, rowLock>>
    /\ UNCHANGED presentationService

NextLedger ==
  \/ Tick
  \/ CallConsumeGeneration
  \/ CallUpdateGenerationStatus
  \/ CallMarkGenerationAsFailedIfPending
  \/ CallRecoverPendingGenerations
  \/ CallGetGenerationAvailability

SpecLedger == InitLedger /\ [][NextLedger]_vars

(***************************************************************************)
(* SpecFlow: the transitions of the flow map called one at a time, with    *)
(* the arguments their signatures admit.  User 1 makes every call; user 2  *)
(* only opens and cancels wizards.                                         *)
(***************************************************************************)
FlowUsers == {1, 2}

FlowCalls(telegramId) ==
  IF telegramId # 1
    THEN [op : {"startFlow", "clearFlow"}, input : {null}]
  ELSE
    [op : {"startFlow", "clearFlow", "backToTopic", "backToTemplate",
           "backToPageCount"}, input : {null}]
    \cup [op : {"setLanguage"}, input : {"uz", "en"}]
    \cup [op : {"setAskTopicMessageId"}, input : {7}]
    \cup [op : {"setTopic"}, input : {"", "Climate policy"}]
    \cup [op : {"setBriefAnswer"},
          input : BriefAnswerKeys \X {<<" ">>, <<" ", "students">>}]
    \cup [op : {"completeBriefAnswers"}, input : SUBSET BriefAnswerKeys]
    \cup [op : {"setTemplate"}, input : {2}]
    \cup [op : {"setPageCount"}, input : {6}]
    \cup [op : {"setGenerating"}, input : BOOLEAN]

\* the call, with its return value reduced to success or failure
applyCall(F, telegramId, call) ==
  LET bool(r) == [flows |-> r.flows, ok |-> r.result]
      state(r) == [flows |-> r.flows, ok |-> r.result # None]
  IN  CASE call.op = "startFlow" ->
             [flows |-> startFlow(F, telegramId), ok |-> TRUE]
        [] call.op = "clearFlow" ->
             [flows |-> clearFlow(F, telegramId), ok |-> TRUE]
        [] call.op = "setLanguage" ->
             bool(setLanguage(F, telegramId, call.input))
        [] call.op = "setAskTopicMessageId" ->
             bool(setAskTopicMessageId(F, telegramId, call.input))
        [] call.op = "setTopic" ->
             bool(setTopic(F, telegramId, call.input))
        [] call.op = "setBriefAnswer" ->
             state(setBriefAnswer(F, telegramId, call.input[1], call.input[2]))
        [] call.op = "completeBriefAnswers" ->
             state(completeBriefAnswers(F, telegramId, call.input))
        [] call.op = "backToTopic" -> state(backToTopic(F, telegramId))
        [] call.op = "setTemplate" ->
             bool(setTemplate(F, telegramId, call.input))
        [] call.op = "backToTemplate" -> bool(backToTemplate(F, telegramId))
        [] call.op = "setPageCount" ->
             bool(setPageCount(F, telegramId, call.input))
        [] call.op = "backToPageCount" -> bool(backToPageCount(F, telegramId))
        [] call.op = "setGenerating" ->
             state(setGenerating(F, telegramId, call.input))

CallFlow ==
  \E telegramId \in FlowUsers :
    \E call \in FlowCalls(telegramId) :
      LET r == applyCall(flows, telegramId, call)
      IN  /\ flows' = r.flows
          /\ last' = [op |-> call.op, arg |-> telegramId, status |-> "none",
                      res |-> [ok |-> r.ok, input |-> call.input]]
          /\ UNCHANGED <<clock, presentations, hs, rowLock, cascade>>

SpecFlow == Init /\ [][CallFlow]_vars

(***************************************************************************)
(* Spec: the running program.  Each handler slot is one invocation of      *)
(* handleImagePreferenceSelection; its awaits are the points where other   *)
(* invocations, the clock, a process start or a crash may interleave.      *)
(* Steps that touch no shared state are joined to the next step that does. *)
(***************************************************************************)
UserIdOf(h) == telegramUsers[hs[h].user].id

\* what setGenerating returned to an invocation whose flow map Spec does not
\* follow: the state that the answers of one run of the wizard lead to
StartedState ==
  setGenerating(wizard(NoFlows, 1).flows, 1, Inputs.useImages).result

\* invocations that may still insert a row
BeforeInsert == {h \in Handlers : hs[h].pc \in {"lock", "counted"}}

\* lines 633-672 of the handler, then consumeGeneration lines 96-99: the gate
\* lets a registered user through, now = new Date(), the transaction starts
\* (both read the clock within the same tick)
Start(h) ==
  \E t \in HandlerUsers :
    /\ hs[h].pc = "idle"
    /\ Len(presentations) + Cardinality(BeforeInsert) < MaxRecords
    /\ hs' = [hs EXCEPT ![h] = [IdleHandler EXCEPT !.pc = "lock",
                                                   !.user = t,
                                                   !.now = clock,
                                                   !.txStart = clock,
                                                   !.state = StartedState,
                                                   !.useImages = Inputs.useImages]]
    /\ UNCHANGED <<clock, presentations, last, rowLock>>
    /\ UNCHANGED presentationService

LockFreeWrong(h) == TRUE

\* select ... for update returns once no other transaction holds the row
LockFree(h) == rowLock[UserIdOf(h)] = 0

\* the row lock is granted, then the usage query runs
LockAndCount(h) ==
  /\ hs[h].pc = "lock"
  /\ LockFree(h)
  /\ rowLock' = [rowLock EXCEPT ![UserIdOf(h)] = h]
  /\ hs' = [hs EXCEPT
       ![h].pc = "counted",
       ![h].usedCount =
          usageQuery(presentations, UserIdOf(h),
                     getWindowStart(hs[h].now)).usedCount]
  /\ UNCHANGED <<clock, presentations, last>>
  /\ UNCHANGED presentationService

Release(h) ==
  [u \in UserIds |-> IF rowLock[u] = h THEN 0 ELSE rowLock[u]]

\* lines 139-168: blocked result, or insert and allowed result; commit
Decide(h) ==
  /\ hs[h].pc = "counted"
  /\ rowLock' = Release(h)
  /\ IF hs[h].usedCount >= DAILY_GENERATION_LIMIT
       THEN /\ presentations' = presentations
            /\ hs' = [hs EXCEPT ![h].pc = "blocked", ![h].now = null,
                                ![h].txStart = null, ![h].usedCount = null]
       ELSE /\ presentations' =
                 insertReservation(presentations, UserIdOf(h), hs[h].txStart,
                    reservationMetadata(hs[h].state[1], hs[h].useImages))
            /\ hs' = [hs EXCEPT ![h].pc = "reserved", ![h].now = null,
                                ![h].txStart = null,
                                ![h].usedCount = null,
                                ![h].reservationId = Len(presentations) + 1]
  /\ UNCHANGED <<clock, last>>
  /\ UNCHANGED presentationService

\* a persistence error inside consumeGeneration: the transaction rolls back
\* and the exception leaves the handler, which has no try around the call
ConsumeThrows(h) ==
  /\ hs[h].pc \in {"lock", "counted"}
  /\ rowLock' = Release(h)
  /\ hs' = [hs EXCEPT ![h] = IdleHandler]
  /\ UNCHANGED <<clock, presentations, last>>
  /\ UNCHANGED presentationService

\* lines 682-689: limit reached, the handler returns
Blocked(h) ==
  /\ hs[h].pc = "blocked"
  /\ flows' = clearFlow(flows, hs[h].user)
  /\ hs' = [hs EXCEPT ![h] = IdleHandler]
  /\ UNCHANGED <<clock, presentations, last, rowLock, cascade>>

\* lines 708-721: generatePresentationPdf, updateGenerationStatus(completed);
\* either may throw, which leads to the catch block with the row untouched;
\* generatedPresentation is assigned once generatePresentationPdf returned
GenerateAndFinalize(h) ==
  /\ hs[h].pc = "reserved"
  /\ \/ /\ hs' = [hs EXCEPT ![h].pc = "catch"]
        /\ presentations' = presentations
     \/ /\ hs' = [hs EXCEPT ![h].pc = "catch",
                            ![h].generatedPresentation = TRUE]
        /\ presentations' = presentations
     \/ /\ hs' = [hs EXCEPT ![h].pc = "finalized",
                            ![h].generatedPresentation = TRUE]
        /\ presentations' =
             updateGenerationStatus(presentations, hs[h].reservationId,
                                    "completed")
  /\ UNCHANGED <<clock, last, rowLock>>
  /\ UNCHANGED presentationService

\* lines 723-760: getPresentationStatus (may throw); a failed row ends the
\* handler without a message; replyWithDocument (may throw); the closing
\* reply (may throw after the document went out)
StatusAndDeliver(h) ==
  /\ hs[h].pc = "finalized"
  /\ \/ hs' = [hs EXCEPT ![h].pc = "catch"]
     \/ /\ getPresentationStatus(presentations, hs[h].reservationId) = "failed"
        /\ hs' = [hs EXCEPT ![h].pc = "finally"]
     \/ /\ getPresentationStatus(presentations, hs[h].reservationId) # "failed"
        /\ \/ hs' = [hs EXCEPT ![h].pc = "catch"]
           \/ hs' = [hs EXCEPT ![h].pc = "catch", ![h].delivered = TRUE]
           \/ hs' = [hs EXCEPT ![h].pc = "finally", ![h].delivered = TRUE]
  /\ UNCHANGED <<clock, presentations, last, rowLock>>
  /\ UNCHANGED presentationService

CatchWrong(h) ==
  /\ hs[h].pc = "catch"
  /\ \E m \in BOOLEAN, f \in BOOLEAN :
       /\ presentations' = presentations
       /\ hs' = [hs EXCEPT ![h].pc = "finally", ![h].marked = m,
                           ![h].failureSent = f]
  /\ UNCHANGED <<clock, last, rowLock>>
  /\ UNCHANGED presentationService

\* lines 761-796: markGenerationAsFailedIfPending (its own error is caught),
\* then the failure message (its own error is caught)
Catch(h) ==
  /\ hs[h].pc = "catch"
  /\ \E m \in BOOLEAN, f \in BOOLEAN :
       /\ presentations' =
            IF m THEN markGenerationAsFailedIfPending(presentations,
                                                      hs[h].reservationId)
                 ELSE presentations
       /\ hs' = [hs EXCEPT ![h].pc = "finally", ![h].marked = m,
                           ![h].failureSent = f]
  /\ UNCHANGED <<clock, last, rowLock>>
  /\ UNCHANGED presentationService

\* lines 797-804: cleanupTemporaryFiles, clearFlow; the handler has ended
Finally(h) ==
  /\ hs[h].pc = "finally"
  /\ flows' = clearFlow(flows, hs[h].user)
  /\ hs' = [hs EXCEPT ![h] = IdleHandler]
  /\ UNCHANGED <<clock, presentations, last, rowLock, cascade>>

\* onModuleInit of a starting process.  Nothing ties the start of a process
\* to the end of the invocations of another one (a redeploy, a second
\* instance on the same database), so it may happen in any state.
onModuleInit ==
  /\ presentations' =
       recoverPendingGenerationsAfterProcessFailure(presentations).presentations
  /\ presentations' # presentations
  /\ UNCHANGED <<clock, last, hs, rowLock>>
  /\ UNCHANGED presentationService

\* a process dies: its invocations vanish, their open transactions roll back
Crash ==
  \E S \in SUBSET {h \in Handlers : hs[h].pc # "idle"} :
    /\ S # {}
    /\ hs' = [h \in Handlers |-> IF h \in S THEN IdleHandler ELSE hs[h]]
    /\ rowLock' = [u \in UserIds |-> IF rowLock[u] \in S THEN 0 ELSE rowLock[u]]
    /\ UNCHANGED <<clock, presentations, last>>
    /\ UNCHANGED presentationService

StartAny == \E h \in Handlers : Start(h)
LockAndCountAny == \E h \in Handlers : LockAndCount(h)
DecideAny == \E h \in Handlers : Decide(h)
ConsumeThrowsAny == \E h \in Handlers : ConsumeThrows(h)
BlockedAny == \E h \in Handlers : Blocked(h)
GenerateAndFinalizeAny == \E h \in Handlers : GenerateAndFinalize(h)
StatusAndDeliverAny == \E h \in Handlers : StatusAndDeliver(h)
CatchAny == \E h \in Handlers : Catch(h)
FinallyAny == \E h \in Handlers : Finally(h)

Next ==
  \/ Tick
  \/ StartAny
  \/ LockAndCountAny
  \/ DecideAny
  \/ ConsumeThrowsAny
  \/ BlockedAny
  \/ GenerateAndFinalizeAny
  \/ StatusAndDeliverAny
  \/ CatchAny
  \/ FinallyAny
  \/ onModuleInit
  \/ Crash

Spec == Init /\ [][Next]_vars

(***************************************************************************)
(* SpecReserve: every handler slot has issued consumeGeneration for the    *)
(* same user at the same instant, while that user has                      *)
(* DAILY_GENERATION_LIMIT - 1 counted rows; only the reservations run.     *)
(***************************************************************************)
Rows(now) ==
  [userId : {11, 12}, createdAt : 0..now, status : Statuses,
   metadata : {EmptyMetadata}]

LedgersUpTo(n, now) ==
  UNION {[1..k -> Rows(now)] : k \in 0..n}

InitReserve ==
  /\ clock \in 0..MaxTime
  /\ presentations \in LedgersUpTo(MaxRecords - 1, clock)
  /\ Cardinality(usageRows(presentations, 11, getWindowStart(clock)))
       = DAILY_GENERATION_LIMIT - 1
  /\ last = NoCall
  /\ hs = [h \in Handlers |-> [IdleHandler EXCEPT !.pc = "lock", !.user = 1,
                                                  !.now = clock,
                                                  !.txStart = clock,
                                                  !.state = StartedState,
                                                  !.useImages = Inputs.useImages]]
  /\ rowLock = [u \in UserIds |-> 0]
  /\ flows = NoFlows
  /\ cascade = NoCascade

NextReserve ==
  \/ LockAndCountAny
  \/ DecideAny

SpecReserve == InitReserve /\ [][NextReserve]_vars

(***************************************************************************)
(* Properties.                                                             *)
(***************************************************************************)
\* the rows the ledger is meant to count for a user at time now
CountedRows(P, userId, now) ==
  {i \in DOMAIN P : /\ P[i].userId = userId
                    /\ P[i].createdAt >= now - RATE_LIMIT_WINDOW_MS
                    /\ P[i].status \in {"pending", "completed"}}

NoPending(P) == \A i \in DOMAIN P : P[i].status # "pending"

\* C1: in every reachable state of the program no user has more than
\* DAILY_GENERATION_LIMIT rows with status other than failed whose createdAt
\* lie in one window [a, a + RATE_LIMIT_WINDOW_MS].
C1_QuotaInvariant ==
  \A u \in UserIds :
    \A a \in (0 - RATE_LIMIT_WINDOW_MS)..MaxTime :
      Cardinality({i \in DOMAIN presentations :
                     /\ presentations[i].userId = u
                     /\ presentations[i].status # "failed"
                     /\ presentations[i].createdAt >= a
                     /\ presentations[i].createdAt <= a + RATE_LIMIT_WINDOW_MS})
        <= DAILY_GENERATION_LIMIT

\* C2: of the concurrent consumeGeneration calls of a user who has
\* DAILY_GENERATION_LIMIT - 1 counted rows, exactly one is granted (it holds
\* the id of a pending row of that user) and every other one that has returned
\* is blocked without a reservation id; at most one call at a time is between
\* its usage query and its commit.
C2_ExactlyOneGranted ==
  LET decided == {h \in Handlers : hs[h].pc \in {"reserved", "blocked"}}
      granted == {h \in decided : hs[h].pc = "reserved"}
  IN  /\ Cardinality({h \in Handlers : hs[h].pc = "counted"}) <= 1
      /\ decided # {} => Cardinality(granted) = 1
      /\ \A h \in granted :
           /\ hs[h].reservationId \in DOMAIN presentations
           /\ presentations[hs[h].reservationId].status = "pending"
           /\ presentations[hs[h].reservationId].userId = UserIdOf(h)
      /\ \A h \in decided \ granted : hs[h].reservationId = null

C2_Witness ==
  /\ \A h \in Handlers : hs[h].pc \in {"reserved", "blocked"}
  /\ Cardinality({h \in Handlers : hs[h].pc = "blocked"}) = NumHandlers - 1
  /\ \E i \in DOMAIN presentations :
       presentations[i].userId = 11 /\ presentations[i].status = "failed"

\* C3: what getGenerationAvailability reports as used, and the count on which
\* consumeGeneration decides, is the number of the user's rows with
\* createdAt >= now - W and status pending or completed; failed rows never
\* enter it.
C3_FailedNeverCounted ==
  [][(/\ last'.op \in {"getGenerationAvailability", "consumeGeneration"}
      /\ ~last'.res.thrown)
     => LET n == Cardinality(CountedRows(presentations,
                                         telegramUsers[last'.arg].id, clock))
        IN  /\ last'.res.allowed = (n < DAILY_GENERATION_LIMIT)
            /\ last'.res.usedToday =
                 IF last'.op = "consumeGeneration" /\ last'.res.allowed
                   THEN n + 1 ELSE n]_vars

C3_Witness ==
  /\ last.op = "getGenerationAvailability"
  /\ ~last.res.thrown
  /\ last.res.usedToday = 1
  /\ Cardinality({i \in DOMAIN presentations :
                    /\ presentations[i].userId = telegramUsers[last.arg].id
                    /\ presentations[i].createdAt >= clock - RATE_LIMIT_WINDOW_MS
                    /\ presentations[i].status = "failed"}) = 2

\* C4: a row that is completed or failed keeps its status in every step of
\* the program.
C4_TerminalStatusIsFinal ==
  [][\A i \in DOMAIN presentations :
       presentations[i].status \in {"completed", "failed"}
         => presentations'[i].status = presentations[i].status]_vars

\* C5: consumeGeneration for a registered user appends exactly one pending row
\* owned by the user and returns its id when fewer than DAILY_GENERATION_LIMIT
\* rows are counted; otherwise it returns allowed = false, no reservation id,
\* and leaves the table as it was.
C5_ReserveInsertsOrBlocks ==
  [][(last'.op = "consumeGeneration" /\ last'.arg \in RegisteredIds)
     => LET u == telegramUsers[last'.arg].id
            n == Cardinality(CountedRows(presentations, u, clock))
        IN  IF n < DAILY_GENERATION_LIMIT
              THEN /\ Len(presentations') = Len(presentations) + 1
                   /\ SubSeq(presentations', 1, Len(presentations))
                        = presentations
                   /\ presentations'[Len(presentations')].status = "pending"
                   /\ presentations'[Len(presentations')].userId = u
                   /\ last'.res.allowed
                   /\ last'.res.reservationId = Len(presentations')
              ELSE /\ presentations' = presentations
                   /\ ~last'.res.allowed
                   /\ last'.res.reservationId = null]_vars

C5_Witness ==
  /\ last.op = "consumeGeneration"
  /\ last.res.allowed
  /\ last.res.reservationId = MaxRows
  /\ presentations[MaxRows].status = "pending"

\* C6: getGenerationAvailability changes no row and, for a registered user
\* with n counted rows, returns allowed = (n < limit), usedToday = n,
\* remainingToday = limit - n when allowed and 0 when blocked, nextAvailableAt
\* = null when allowed and the oldest counted createdAt + W when blocked.
C6_AvailabilityResult ==
  [][last'.op = "getGenerationAvailability"
     => /\ presentations' = presentations
        /\ last'.arg \in RegisteredIds =>
             LET rows == CountedRows(presentations,
                                     telegramUsers[last'.arg].id, clock)
                 n == Cardinality(rows)
             IN  /\ ~last'.res.thrown
                 /\ last'.res.allowed = (n < DAILY_GENERATION_LIMIT)
                 /\ last'.res.usedToday = n
                 /\ last'.res.dailyLimit = DAILY_GENERATION_LIMIT
                 /\ last'.res.remainingToday =
                      IF n < DAILY_GENERATION_LIMIT
                        THEN DAILY_GENERATION_LIMIT - n ELSE 0
                 /\ last'.res.nextAvailableAt =
                      IF n < DAILY_GENERATION_LIMIT THEN null
                      ELSE MinOf({presentations[i].createdAt : i \in rows})
                             + RATE_LIMIT_WINDOW_MS]_vars

C6_Witness ==
  /\ last.op = "getGenerationAvailability"
  /\ ~last.res.thrown
  /\ ~last.res.allowed
  /\ last.res.nextAvailableAt = clock

\* C7: recoverPendingGenerationsAfterProcessFailure turns exactly the pending
\* rows into failed ones, returns their number and leaves the other rows as
\* they were; called again at once it returns 0 and changes nothing; and no
\* call other than consumeGeneration brings a pending row back.
C7_RecoverExactlyPending ==
  [][/\ last'.op = "recoverPendingGenerationsAfterProcessFailure"
          => /\ Len(presentations') = Len(presentations)
             /\ \A i \in DOMAIN presentations :
                  presentations'[i] =
                    IF presentations[i].status = "pending"
                      THEN [presentations[i] EXCEPT !.status = "failed"]
                      ELSE presentations[i]
             /\ last'.res.recovered =
                  Cardinality({i \in DOMAIN presentations :
                                 presentations[i].status = "pending"})
     /\ (/\ last.op = "recoverPendingGenerationsAfterProcessFailure"
         /\ last'.op = "recoverPendingGenerationsAfterProcessFailure")
          => /\ last'.res.recovered = 0
             /\ presentations' = presentations
     /\ (NoPending(presentations) /\ last'.op # "consumeGeneration")
          => NoPending(presentations')]_vars

C7_Witness ==
  /\ last.op = "recoverPendingGenerationsAfterProcessFailure"
  /\ last.res.recovered = 2
  /\ \E i \in DOMAIN presentations : presentations[i].status = "completed"

\* C8: from every ledger state in which consumeGeneration is granted to a
\* user, reserving, setting the reservation to failed and asking for the
\* availability, at any time at which no row of the user has left the window,
\* reports the usedToday that was reported before the reservation.
C8_ReserveFailRoundTrip ==
  \A t \in RegisteredIds :
    LET before == getGenerationAvailability(presentations, t, clock)
        r == consumeGeneration(presentations, t, EmptyMetadata, clock, clock)
    IN  r.result.allowed =>
          LET fin == updateGenerationStatus(r.presentations,
                                            r.result.reservationId, "failed")
          IN  \A t2 \in clock..MaxTime :
                (CountedRows(presentations, telegramUsers[t].id, t2)
                   = CountedRows(presentations, telegramUsers[t].id, clock))
                => getGenerationAvailability(fin, t, t2).usedToday
                     = before.usedToday

C8_Witness ==
  /\ last.op = "updateGenerationStatus"
  /\ last.status = "failed"
  /\ last.arg = Len(presentations)
  /\ Len(presentations) = MaxRows
  /\ presentations[last.arg].status = "failed"
  /\ getGenerationAvailability(presentations, 1, clock).usedToday = 2

\* C9: markGenerationAsFailedIfPending(id) sets the row to failed when it is
\* pending and changes nothing else; for a completed or failed row or an
\* unknown id it changes nothing; applying it twice equals applying it once.
C9_MarkFailedOnlyIfPending ==
  [][last'.op = "markGenerationAsFailedIfPending"
     => LET id == last'.arg
        IN  /\ Len(presentations') = Len(presentations)
            /\ \A i \in DOMAIN presentations :
                 i # id => presentations'[i] = presentations[i]
            /\ id \in DOMAIN presentations =>
                 /\ presentations'[id].userId = presentations[id].userId
                 /\ presentations'[id].createdAt = presentations[id].createdAt
                 /\ presentations'[id].status =
                      IF presentations[id].status = "pending" THEN "failed"
                      ELSE presentations[id].status
            /\ markGenerationAsFailedIfPending(presentations', id)
                 = presentations']_vars

C9_Witness ==
  /\ last.op = "markGenerationAsFailedIfPending"
  /\ last.arg \in DOMAIN presentations
  /\ presentations[last.arg].status = "completed"

\* C10: a handler that ends on its failure path (generation, finalization or
\* delivery threw, markGenerationAsFailedIfPending ran, the failure message
\* was sent) leaves its reservation with status failed.
C10_FailurePathReleasesQuota ==
  \A h \in Handlers :
    (/\ hs[h].pc = "finally"
     /\ hs[h].failureSent
     /\ hs[h].marked
     /\ ~hs[h].delivered)
    => presentations[hs[h].reservationId].status = "failed"

(***************************************************************************)
(* PresentationService.generateSlides.  Texts that the code trims or tests *)
(* for blankness are sequences of chunks, " " being whitespace.  A slide   *)
(* is [pageNumber, title, summary, bullets, content].  What a provider     *)
(* answers is drawn from Responses.                                        *)
(***************************************************************************)
PageCounts == {4, 6, 8}

SlideLanguages == {"uz", "en"}

MinNum(a, b) == IF a <= b THEN a ELSE b

getSlideLocale(language) ==
  IF language = "en"
    THEN [sectionLabel |-> "Section",
          defaultSummary |->
            <<"This section highlights the core aspects of the topic.">>,
          defaultBullets |->
            <<<<"Core concepts are explained">>,
              <<"Practical examples are shown">>,
              <<"Problems and solutions are compared">>,
              <<"Key takeaways are summarized">>>>,
          sections |->
            <<"Introduction and context", "Core concepts",
              "Analysis and challenges", "Strategy", "Practical examples",
              "Results", "Recommendations", "Conclusion and next steps">>]
    ELSE [sectionLabel |-> "Bo'lim",
          defaultSummary |->
            <<"Mazkur bo'lim mavzuning asosiy jihatlarini yoritadi.">>,
          defaultBullets |->
            <<<<"Asosiy tushunchalar izohlanadi">>,
              <<"Amaliy qo'llash misollari beriladi">>,
              <<"Muammolar va yechimlar solishtiriladi">>,
              <<"Natijalar qisqacha yakunlanadi">>>>,
          sections |->
            <<"Kirish va kontekst", "Asosiy tushunchalar",
              "Tahlil va muammolar", "Strategiya", "Amaliy misollar",
              "Natijalar", "Tavsiyalar", "Xulosa va keyingi qadamlar">>]

\* locale.fallbackBullets(topic)
fallbackBullets(language, topic) ==
  IF language = "en"
    THEN <<<<"Core idea related to ", topic>>,
           <<"Analysis of challenges and opportunities">>,
           <<"Short practical approach">>,
           <<"Proposal to drive measurable outcomes">>>>
    ELSE <<<<topic, " bo'yicha asosiy g'oya">>,
           <<"Muammo va imkoniyatlar tahlili">>,
           <<"Qisqa amaliy yondashuv">>,
           <<"Natijaga olib boruvchi taklif">>>>

\* String.prototype.toLowerCase on the section names
toLowerCase(section) ==
  CASE section = "Introduction and context" -> "introduction and context"
    [] section = "Core concepts" -> "core concepts"
    [] section = "Analysis and challenges" -> "analysis and challenges"
    [] section = "Strategy" -> "strategy"
    [] section = "Practical examples" -> "practical examples"
    [] section = "Results" -> "results"
    [] section = "Recommendations" -> "recommendations"
    [] section = "Conclusion and next steps" -> "conclusion and next steps"
    [] section = "Kirish va kontekst" -> "kirish va kontekst"
    [] section = "Asosiy tushunchalar" -> "asosiy tushunchalar"
    [] section = "Tahlil va muammolar" -> "tahlil va muammolar"
    [] section = "Strategiya" -> "strategiya"
    [] section = "Amaliy misollar" -> "amaliy misollar"
    [] section = "Natijalar" -> "natijalar"
    [] section = "Tavsiyalar" -> "tavsiyalar"
    [] section = "Xulosa va keyingi qadamlar" -> "xulosa va keyingi qadamlar"

\* section is None past the end of the section list
buildFallbackSummary(topic, section, language) ==
  LET sectionText == IF section = None THEN None
                     ELSE Some(toLowerCase(section[1]))
  IN  IF language = "en"
        THEN <<"For the topic \"", topic, "\", this slide covers ",
               IF sectionText = None THEN "the key section"
               ELSE sectionText[1],
               ". It presents the most important points in a clear and structured way.">>
        ELSE <<"\"", topic, "\" mavzusi bo'yicha ",
               IF sectionText = None THEN "asosiy bo'lim" ELSE sectionText[1],
               " yoritiladi. Ushbu sahifa taqdimotning muhim nuqtalarini tartibli ko'rsatadi.">>

\* the html of a slide is a function of its summary and bullets
buildSlideHtmlContent(summary, bullets) == <<summary, bullets>>

buildFallbackSlidesWrong(topic, pageCount, language) ==
  LET locale == getSlideLocale(language)
  IN  [i \in 1..Len(locale.sections) |->
         LET summary == buildFallbackSummary(topic, Some(locale.sections[i]),
                                             language)
             bullets == fallbackBullets(language, topic)
         IN  [pageNumber |-> i, title |-> <<locale.sections[i]>>,
              summary |-> summary, bullets |-> bullets,
              content |-> buildSlideHtmlContent(summary, bullets)]]

\* i is index + 1 of the source
buildFallbackSlides(topic, pageCount, language) ==
  LET locale == getSlideLocale(language)
  IN  [i \in 1..pageCount |->
         LET section == IF i <= Len(locale.sections)
                          THEN Some(locale.sections[i]) ELSE None
             summary == buildFallbackSummary(topic, section, language)
             bullets == fallbackBullets(language, topic)
         IN  [pageNumber |-> i,
              title |-> IF section # None THEN <<section[1]>>
                        ELSE <<locale.sectionLabel, " ", ToString(i)>>,
              summary |-> summary,
              bullets |-> bullets,
              content |-> buildSlideHtmlContent(summary, bullets)]]

normalizeSlidesWrong(slides, pageCount, language) ==
  IF slides = None THEN <<>>
  ELSE
    LET items == SubSeq(slides[1], 1, MinNum(pageCount, Len(slides[1])))
    IN  [i \in 1..Len(items) |->
           LET safeItem == IF items[i] = None
                             THEN [title |-> None, summary |-> None,
                                   bullets |-> None]
                             ELSE items[i][1]
               title == IF safeItem.title # None THEN safeItem.title[1]
                        ELSE <<>>
               summary == IF safeItem.summary # None THEN safeItem.summary[1]
                          ELSE <<>>
               bullets == IF safeItem.bullets = None THEN <<>>
                          ELSE safeItem.bullets[1]
           IN  [pageNumber |-> i, title |-> title, summary |-> summary,
                bullets |-> bullets,
                content |-> buildSlideHtmlContent(summary, bullets)]]

\* slides is None when the parsed value is not an array, else Some(items);
\* an item is None when it is not an object, else a record whose title and
\* summary are None or Some(text) and whose bullets are None or Some(texts)
normalizeSlides(slides, pageCount, language) ==
  IF slides = None THEN <<>>
  ELSE
    LET locale == getSlideLocale(language)
        items == SubSeq(slides[1], 1, MinNum(pageCount, Len(slides[1])))
    IN  [i \in 1..Len(items) |->
           LET safeItem == IF items[i] = None
                             THEN [title |-> None, summary |-> None,
                                   bullets |-> None]
                             ELSE items[i][1]
               title ==
                 IF safeItem.title # None /\ trim(safeItem.title[1]) # <<>>
                   THEN trim(safeItem.title[1])
                   ELSE <<locale.sectionLabel, " ", ToString(i)>>
               summary ==
                 IF safeItem.summary # None /\ trim(safeItem.summary[1]) # <<>>
                   THEN trim(safeItem.summary[1])
                   ELSE locale.defaultSummary
               kept == IF safeItem.bullets = None THEN <<>>
                       ELSE SelectSeq(safeItem.bullets[1],
                                      LAMBDA bullet : trim(bullet) # <<>>)
               bullets == SubSeq(kept, 1, MinNum(5, Len(kept)))
               filledBullets ==
                 IF Len(bullets) > 0 THEN bullets ELSE locale.defaultBullets
           IN  [pageNumber |-> i, title |-> title, summary |-> summary,
                bullets |-> filledBullets,
                content |-> buildSlideHtmlContent(summary, filledBullets)]]

NoError == [name |-> "", status |-> 0, details |-> ""]

SlidesThrown(name, status, details) ==
  [ok |-> FALSE, slides |-> <<>>,
   error |-> [name |-> name, status |-> status, details |-> details]]

SlidesReturned(slides) == [ok |-> TRUE, slides |-> slides, error |-> NoError]

parseAiSlidesWrong(content, pageCount, language) ==
  IF ~content.json THEN SlidesThrown("SyntaxError", 0, "")
  ELSE SlidesReturned(normalizeSlides(content.slides, pageCount, language))

\* content: [json, slides]; JSON.parse throws on text that is not JSON
parseAiSlides(content, pageCount, language) ==
  IF ~content.json THEN SlidesThrown("SyntaxError", 0, "")
  ELSE LET aiSlides == normalizeSlides(content.slides, pageCount, language)
       IN  IF Len(aiSlides) = pageCount THEN SlidesReturned(aiSlides)
           ELSE SlidesThrown("Error", 0, "")

\* what a provider sends back
GoodItem(i) ==
  Some([title |-> Some(<<"Part", " ", ToString(i)>>),
        summary |-> Some(<<" ", "What part ", ToString(i), " is about">>),
        bullets |-> Some(<<<<"first">>, <<"second">>>>)])

RawSlides(n) ==
  Some([i \in 1..n |->
          CASE i = 1 ->
                 Some([title |-> Some(<<" ", "Overview", " ">>),
                       summary |-> Some(<<"Why it matters">>),
                       bullets |-> Some(<<<<"a">>, <<" ">>, <<"b">>, <<"c">>,
                                          <<"d">>, <<" ", "e">>, <<"f">>>>)])
            [] i = 2 ->
                 Some([title |-> Some(<<" ">>), summary |-> None,
                       bullets |-> None])
            [] i = 3 -> None
            [] OTHER -> GoodItem(i)])

\* fetch rejects; an HTTP error; a body without content; a body whose
\* content is not JSON, has no slides array, or has n slides
Responses(pageCount) ==
  [kind : {"reject", "empty"}, status : {0}, details : {""},
   content : {[json |-> FALSE, slides |-> None]}]
  \cup [kind : {"http"}, status : {400, 403, 429},
        details : {"API_KEY_INVALID", "PERMISSION_DENIED",
                   "RESOURCE_EXHAUSTED"},
        content : {[json |-> FALSE, slides |-> None]}]
  \cup [kind : {"content"}, status : {200}, details : {""},
        content : {[json |-> FALSE, slides |-> None],
                   [json |-> TRUE, slides |-> None]}
                  \cup {[json |-> TRUE, slides |-> RawSlides(n)] :
                          n \in {pageCount - 1, pageCount, pageCount + 1}}]

NoResponse ==
  [kind |-> "none", status |-> 0, details |-> "",
   content |-> [json |-> FALSE, slides |-> None]]

generateSlidesWithOpenAi(response, pageCount, language) ==
  CASE response.kind = "reject" -> SlidesThrown("TypeError", 0, "")
    [] response.kind = "http" -> SlidesThrown("Error", 0, "")
    [] response.kind = "empty" -> SlidesThrown("Error", 0, "")
    [] response.kind = "content" ->
         parseAiSlides(response.content, pageCount, language)

generateSlidesWithGemini(response, pageCount, language) ==
  CASE response.kind = "reject" -> SlidesThrown("TypeError", 0, "")
    [] response.kind = "http" ->
         SlidesThrown("GeminiApiError", response.status, response.details)
    [] response.kind = "empty" -> SlidesThrown("Error", 0, "")
    [] response.kind = "content" ->
         parseAiSlides(response.content, pageCount, language)

shouldTryNextGeminiApiKeyWrong(error) == TRUE

shouldTryNextGeminiApiKey(error) ==
  IF error.name # "GeminiApiError" THEN FALSE
  ELSE IF error.status = 400 /\ error.details = "API_KEY_INVALID" THEN TRUE
  ELSE IF error.status = 403 /\ error.details = "PERMISSION_DENIED" THEN TRUE
  ELSE FALSE

(***************************************************************************)
(* Topic normalization and image-query correction: the two other cascades  *)
(* over the same providers and keys                                        *)
(***************************************************************************)
\* replace(/\s+/g, " "): every run of whitespace becomes one space
RECURSIVE collapseSpaces(_)
collapseSpaces(s) ==
  IF Len(s) < 2 THEN s
  ELSE IF s[1] = " " /\ s[2] = " " THEN collapseSpaces(Tail(s))
  ELSE <<s[1]>> \o collapseSpaces(Tail(s))

\* the topics generatePresentationPdf can be given: clean, padded, blank
RawTopics ==
  {<<Inputs.topic>>, <<" ", Inputs.topic, " ">>, <<" ", " ">>}

TopicReturned(normalizedTopic) ==
  [ok |-> TRUE, normalizedTopic |-> normalizedTopic, error |-> NoError]

parseNormalizedTopicWrong(content) ==
  IF ~content.json THEN SlidesThrown("SyntaxError", 0, "")
  ELSE IF content.normalizedTopic = None THEN SlidesThrown("Error", 0, "")
  ELSE TopicReturned(content.normalizedTopic[1])

\* content: [json, normalizedTopic], normalizedTopic None when the parsed
\* value has no string of that name
parseNormalizedTopic(content) ==
  IF ~content.json THEN SlidesThrown("SyntaxError", 0, "")
  ELSE LET normalizedTopic ==
             IF content.normalizedTopic # None
               THEN trim(content.normalizedTopic[1]) ELSE <<>>
       IN  IF normalizedTopic = <<>> THEN SlidesThrown("Error", 0, "")
           ELSE TopicReturned(normalizedTopic)

TopicResponses ==
  [kind : {"reject", "empty"}, status : {0}, details : {""},
   content : {[json |-> FALSE, normalizedTopic |-> None]}]
  \cup [kind : {"http"}, status : {400, 403, 429},
        details : {"API_KEY_INVALID", "PERMISSION_DENIED",
                   "RESOURCE_EXHAUSTED"},
        content : {[json |-> FALSE, normalizedTopic |-> None]}]
  \cup [kind : {"content"}, status : {200}, details : {""},
        content : {[json |-> FALSE, normalizedTopic |-> None],
                   [json |-> TRUE, normalizedTopic |-> None],
                   [json |-> TRUE, normalizedTopic |-> Some(<<" ">>)],
                   [json |-> TRUE,
                    normalizedTopic |-> Some(<<" ", "Iqlim siyosati", " ">>)]}]

normalizeTopicWithOpenAi(response) ==
  CASE response.kind = "reject" -> SlidesThrown("TypeError", 0, "")
    [] response.kind = "http" -> SlidesThrown("Error", 0, "")
    [] response.kind = "empty" -> SlidesThrown("Error", 0, "")
    [] response.kind = "content" -> parseNormalizedTopic(response.content)

normalizeTopicWithGemini(response) ==
  CASE response.kind = "reject" -> SlidesThrown("TypeError", 0, "")
    [] response.kind = "http" ->
         SlidesThrown("GeminiApiError", response.status, response.details)
    [] response.kind = "empty" -> SlidesThrown("Error", 0, "")
    [] response.kind = "content" -> parseNormalizedTopic(response.content)

getDefaultSerperLocale(language) ==
  CASE language = "ru" -> [gl |-> "ru", hl |-> "ru"]
    [] language = "en" -> [gl |-> "us", hl |-> "en"]
    [] OTHER -> [gl |-> "uz", hl |-> "uz"]

\* `${topic} ${slide.title}`, whitespace collapsed and trimmed; slice(0, 120)
\* keeps the whole of a text of fewer than 120 characters, as these are
buildImageSearchQuery(topic, slide) ==
  trim(collapseSpaces(<<topic, " ">> \o slide.title))

NoParams == [query |-> <<>>, gl |-> "", hl |-> ""]

ParamsReturned(params) == [ok |-> TRUE, params |-> params, error |-> NoError]

\* content: [json, query]; the answer carries no usable gl and hl, so
\* normalizeSerperCountryCode and normalizeSerperLanguageCode give the
\* fallback's
parseImageSearchParams(content, fallback) ==
  IF ~content.json THEN SlidesThrown("SyntaxError", 0, "")
  ELSE LET query == IF content.query # None
                      THEN trim(collapseSpaces(content.query[1])) ELSE <<>>
           normalizedQuery == IF query # <<>> THEN query ELSE fallback.query
       IN  IF normalizedQuery = <<>> THEN SlidesThrown("Error", 0, "")
           ELSE ParamsReturned([query |-> normalizedQuery,
                                gl |-> fallback.gl, hl |-> fallback.hl])

ImageQueryResponses ==
  [kind : {"reject", "empty"}, status : {0}, details : {""},
   content : {[json |-> FALSE, query |-> None]}]
  \cup [kind : {"http"}, status : {400, 403, 429},
        details : {"API_KEY_INVALID", "PERMISSION_DENIED",
                   "RESOURCE_EXHAUSTED"},
        content : {[json |-> FALSE, query |-> None]}]
  \cup [kind : {"content"}, status : {200}, details : {""},
        content : {[json |-> FALSE, query |-> None],
                   [json |-> TRUE, query |-> None],
                   [json |-> TRUE, query |-> Some(<<" ">>)],
                   [json |-> TRUE,
                    query |-> Some(<<"climate", " ", " ", "policy", " ">>)]}]

normalizeImageSearchParamsWithOpenAi(response, fallback) ==
  CASE response.kind = "reject" -> SlidesThrown("TypeError", 0, "")
    [] response.kind = "http" -> SlidesThrown("Error", 0, "")
    [] response.kind = "empty" -> SlidesThrown("Error", 0, "")
    [] response.kind = "content" ->
         parseImageSearchParams(response.content, fallback)

normalizeImageSearchParamsWithGemini(response, fallback) ==
  CASE response.kind = "reject" -> SlidesThrown("TypeError", 0, "")
    [] response.kind = "http" ->
         SlidesThrown("GeminiApiError", response.status, response.details)
    [] response.kind = "empty" -> SlidesThrown("Error", 0, "")
    [] response.kind = "content" ->
         parseImageSearchParams(response.content, fallback)

(***************************************************************************)
(* SpecSlides: one call of generateSlides, of normalizeTopicForLanguage or *)
(* of buildImageSearchParams for each configuration of keys and each       *)
(* input; every provider call gets some response.                          *)
(***************************************************************************)
Phases == {"slides", "topic", "imageQuery"}

\* a cascade has been called: index is the Gemini key in use, calls the
\* provider calls made so far, response and error what the last call got
\* and threw, returned the return statement taken; slides, normalizedTopic
\* and params hold the value returned by the phase
CascadeStart(openAiApiKey, geminiApiKeys, pageCount, language) ==
  [pc |-> "start", phase |-> "slides", openAiApiKey |-> openAiApiKey,
   geminiApiKeys |-> geminiApiKeys, topic |-> Inputs.topic,
   rawTopic |-> <<Inputs.topic>>,
   pageCount |-> pageCount, language |-> language, index |-> 0,
   calls |-> <<>>, response |-> NoResponse, error |-> NoError,
   returned |-> "none", slides |-> <<>>, normalizedTopic |-> <<>>,
   params |-> NoParams]

InitSlides ==
  /\ clock = 0
  /\ presentations = <<>>
  /\ last = NoCall
  /\ hs = [h \in Handlers |-> IdleHandler]
  /\ rowLock = [u \in UserIds |-> 0]
  /\ flows = NoFlows
  /\ cascade \in
       {CascadeStart(o, g, p, l) :
          o \in BOOLEAN, g \in 0..MaxKeys, p \in PageCounts,
          l \in SlideLanguages}
       \cup {[CascadeStart(o, g, Inputs.pageCount, l) EXCEPT
                !.phase = "topic", !.rawTopic = t] :
               o \in BOOLEAN, g \in 0..MaxKeys, l \in SlideLanguages,
               t \in RawTopics}
       \cup {[CascadeStart(o, g, Inputs.pageCount, l) EXCEPT
                !.phase = "imageQuery"] :
               o \in BOOLEAN, g \in 0..MaxKeys, l \in SlideLanguages}

\* the slide whose image query is corrected
QuerySlide(c) == buildFallbackSlides(c.topic, c.pageCount, c.language)[1]

\* lines 970-973: the heuristic parameters
FallbackParams(c) ==
  [query |-> buildImageSearchQuery(c.topic, QuerySlide(c)),
   gl |-> getDefaultSerperLocale(c.language).gl,
   hl |-> getDefaultSerperLocale(c.language).hl]

\* the last statement of each cascade: the fallback slides, the trimmed
\* topic, the heuristic parameters
FallbackReturn(c) ==
  CASE c.phase = "slides" ->
         [c EXCEPT !.pc = "done", !.returned = "fallback",
                   !.slides = buildFallbackSlides(c.topic, c.pageCount,
                                                  c.language)]
    [] c.phase = "topic" ->
         [c EXCEPT !.pc = "done", !.returned = "fallback",
                   !.normalizedTopic = trim(c.rawTopic)]
    [] c.phase = "imageQuery" ->
         [c EXCEPT !.pc = "done", !.returned = "fallback",
                   !.params = FallbackParams(c)]

\* return await ...: the value of a provider call that did not throw
ProviderReturn(c, provider, r) ==
  CASE c.phase = "slides" ->
         [c EXCEPT !.pc = "done", !.returned = provider,
                   !.slides = r.slides]
    [] c.phase = "topic" ->
         [c EXCEPT !.pc = "done", !.returned = provider,
                   !.normalizedTopic = r.normalizedTopic]
    [] c.phase = "imageQuery" ->
         [c EXCEPT !.pc = "done", !.returned = provider,
                   !.params = r.params]

PhaseResponses(c) ==
  CASE c.phase = "slides" -> Responses(c.pageCount)
    [] c.phase = "topic" -> TopicResponses
    [] c.phase = "imageQuery" -> ImageQueryResponses

callOpenAi(c, response) ==
  CASE c.phase = "slides" ->
         generateSlidesWithOpenAi(response, c.pageCount, c.language)
    [] c.phase = "topic" -> normalizeTopicWithOpenAi(response)
    [] c.phase = "imageQuery" ->
         normalizeImageSearchParamsWithOpenAi(response, FallbackParams(c))

callGemini(c, response) ==
  CASE c.phase = "slides" ->
         generateSlidesWithGemini(response, c.pageCount, c.language)
    [] c.phase = "topic" -> normalizeTopicWithGemini(response)
    [] c.phase = "imageQuery" ->
         normalizeImageSearchParamsWithGemini(response, FallbackParams(c))

\* lines 766-774: which keys are configured
generateSlides ==
  /\ cascade.pc = "start"
  /\ cascade.phase = "slides"
  /\ cascade' =
       IF ~cascade.openAiApiKey /\ cascade.geminiApiKeys = 0
         THEN FallbackReturn(cascade)
       ELSE IF cascade.openAiApiKey THEN [cascade EXCEPT !.pc = "openai"]
       ELSE [cascade EXCEPT !.pc = "gemini", !.index = 1]
  /\ UNCHANGED <<clock, presentations, last, hs, rowLock, flows>>

\* lines 563-571 and 585: a blank topic is returned as it came, before any
\* key is read; without keys both the if and the loop are skipped
normalizeTopicForLanguage ==
  /\ cascade.pc = "start"
  /\ cascade.phase = "topic"
  /\ cascade' =
       IF trim(cascade.rawTopic) = <<>>
         THEN [cascade EXCEPT !.pc = "done", !.returned = "blank",
                              !.normalizedTopic = cascade.rawTopic]
       ELSE IF cascade.openAiApiKey THEN [cascade EXCEPT !.pc = "openai"]
       ELSE IF cascade.geminiApiKeys > 0
         THEN [cascade EXCEPT !.pc = "gemini", !.index = 1]
       ELSE FallbackReturn(cascade)
  /\ UNCHANGED <<clock, presentations, last, hs, rowLock, flows>>

\* lines 970-978 and 996
buildImageSearchParams ==
  /\ cascade.pc = "start"
  /\ cascade.phase = "imageQuery"
  /\ cascade' =
       IF cascade.openAiApiKey THEN [cascade EXCEPT !.pc = "openai"]
       ELSE IF cascade.geminiApiKeys > 0
         THEN [cascade EXCEPT !.pc = "gemini", !.index = 1]
       ELSE FallbackReturn(cascade)
  /\ UNCHANGED <<clock, presentations, last, hs, rowLock, flows>>

\* lines 776-797, 571-583, 978-994: the OpenAI attempt and its catch
tryOpenAi ==
  /\ cascade.pc = "openai"
  /\ \E response \in PhaseResponses(cascade) :
       LET r == callOpenAi(cascade, response)
           called == [cascade EXCEPT !.calls = Append(@, <<"openai", 0>>),
                                     !.response = response]
       IN  cascade' =
             IF r.ok THEN ProviderReturn(called, "openai", r)
             ELSE IF cascade.geminiApiKeys = 0
               THEN FallbackReturn([called EXCEPT !.error = r.error])
             ELSE [called EXCEPT !.pc = "gemini", !.index = 1,
                                 !.error = r.error]
  /\ UNCHANGED <<clock, presentations, last, hs, rowLock, flows>>

tryGeminiWrong ==
  /\ cascade.pc = "gemini"
  /\ \E response \in PhaseResponses(cascade) :
       LET r == callGemini(cascade, response)
           called == [cascade EXCEPT
                        !.calls = Append(@, <<"gemini", cascade.index>>),
                        !.response = response]
       IN  cascade' =
             IF r.ok THEN ProviderReturn(called, "gemini", r)
             ELSE IF Len(called.calls) > cascade.geminiApiKeys
               THEN FallbackReturn([called EXCEPT !.error = r.error])
             ELSE [called EXCEPT !.error = r.error]
  /\ UNCHANGED <<clock, presentations, last, hs, rowLock, flows>>

\* lines 799-827, 585-610, 996-1026: one turn of the Gemini key loop, and
\* the return after the loop
tryGemini ==
  /\ cascade.pc = "gemini"
  /\ \E response \in PhaseResponses(cascade) :
       LET r == callGemini(cascade, response)
           called == [cascade EXCEPT
                        !.calls = Append(@, <<"gemini", cascade.index>>),
                        !.response = response]
           hasNextKey == cascade.index < cascade.geminiApiKeys
       IN  cascade' =
             IF r.ok THEN ProviderReturn(called, "gemini", r)
             ELSE IF ~hasNextKey \/ ~shouldTryNextGeminiApiKey(r.error)
               THEN FallbackReturn([called EXCEPT !.error = r.error])
             ELSE [called EXCEPT !.index = @ + 1, !.error = r.error]
  /\ UNCHANGED <<clock, presentations, last, hs, rowLock, flows>>

NextSlides ==
  \/ generateSlides
  \/ normalizeTopicForLanguage
  \/ buildImageSearchParams
  \/ tryOpenAi
  \/ tryGemini

SpecSlides == InitSlides /\ [][NextSlides]_vars

(***************************************************************************)
(* SpecBot: one process of the bot and user 1 (registered).  The user runs *)
(* the wizard, presses the final button, and may run the wizard again      *)
(* while an earlier invocation of the handler is still generating.  The    *)
(* process may exit at any point; it is then started again.                *)
(***************************************************************************)
\* invocations of the handler that overlap in SpecBot
BotHandlers == {1, 2}

Up == \A h \in Handlers : hs[h].pc # "down"

\* the user answers the wizard's questions up to the last one
Wizard ==
  /\ Up
  /\ flows' = wizard(flows, 1).flows
  /\ flows' # flows
  /\ UNCHANGED <<clock, presentations, last, hs, rowLock, cascade>>

\* lines 632-672 of the handler: the gate lets the registered user through,
\* setGenerating, return when it fails, else consumeGeneration begins
handleImagePreferenceSelection(h) ==
  \E useImages \in {Inputs.useImages} :
    LET r == setGenerating(flows, 1, useImages)
    IN  /\ Up
        /\ hs[h].pc = "idle"
        /\ Len(presentations) + Cardinality(BeforeInsert) < MaxRecords
        /\ r.result # None
        /\ flows' = r.flows
        /\ hs' = [hs EXCEPT ![h] = [IdleHandler EXCEPT !.pc = "lock",
                                                       !.user = 1,
                                                       !.now = clock,
                                                       !.txStart = clock,
                                                       !.state = r.result,
                                                       !.useImages = useImages]]
        /\ UNCHANGED <<clock, presentations, last, rowLock, cascade>>

\* the process ends: its invocations, their transactions and the flow map,
\* which lives in its memory, are gone
ProcessExit ==
  /\ Up
  /\ hs' = [h \in Handlers |-> [IdleHandler EXCEPT !.pc = "down"]]
  /\ rowLock' = [u \in UserIds |-> 0]
  /\ flows' = NoFlows
  /\ UNCHANGED <<clock, presentations, last, cascade>>

\* the process starts: onModuleInit runs the recovery before any update
ProcessStart ==
  /\ ~Up
  /\ presentations' =
       recoverPendingGenerationsAfterProcessFailure(presentations).presentations
  /\ hs' = [h \in Handlers |-> IdleHandler]
  /\ UNCHANGED <<clock, last, rowLock>>
  /\ UNCHANGED presentationService

handleImagePreferenceSelectionAny ==
  \E h \in BotHandlers : handleImagePreferenceSelection(h)

NextBot ==
  \/ Wizard
  \/ handleImagePreferenceSelectionAny
  \/ LockAndCountAny
  \/ DecideAny
  \/ ConsumeThrowsAny
  \/ BlockedAny
  \/ GenerateAndFinalizeAny
  \/ StatusAndDeliverAny
  \/ CatchAny
  \/ FinallyAny
  \/ ProcessExit
  \/ ProcessStart

\* every await of a running invocation returns or throws, a transaction
\* waiting for the row lock gets it, and a process that ended is started
\* again; nothing obliges the user to act or the process to end
FairBot ==
  /\ \A h \in Handlers :
       /\ SF_vars(LockAndCount(h))
       /\ WF_vars(Decide(h))
       /\ WF_vars(Blocked(h))
       /\ WF_vars(GenerateAndFinalize(h))
       /\ WF_vars(StatusAndDeliver(h))
       /\ WF_vars(Catch(h))
       /\ WF_vars(Finally(h))
  /\ WF_vars(ProcessStart)

SpecBot == Init /\ [][NextBot]_vars /\ FairBot

(***************************************************************************)
(* Properties of the flow map (SpecFlow)                                   *)
(***************************************************************************)
\* the four brief answers of a FlowState are all there and none is blank
BriefAnswered(state) ==
  /\ state.briefAnswers # None
  /\ \A key \in BriefAnswerKeys :
       /\ key \in DOMAIN state.briefAnswers[1]
       /\ trim(state.briefAnswers[1][key]) # <<>>

\* the step a forward transition expects
ExpectedStep(op) ==
  CASE op = "setLanguage" -> "awaiting_language"
    [] op = "setTopic" -> "awaiting_topic"
    [] op \in {"setBriefAnswer", "completeBriefAnswers"} ->
         "awaiting_brief_answer"
    [] op = "setTemplate" -> "awaiting_template"
    [] op = "setPageCount" -> "awaiting_page_count"
    [] op = "setGenerating" -> "awaiting_image_preference"

\* the fields collected upstream of a forward transition are populated
UpstreamPopulated(op, state) ==
  CASE op = "setLanguage" -> TRUE
    [] op = "setTopic" -> ~Falsy(state.language)
    [] op = "setBriefAnswer" ->
         ~Falsy(state.language) /\ ~Falsy(state.topic)
    [] op \in {"completeBriefAnswers", "setTemplate"} ->
         /\ ~Falsy(state.language)
         /\ ~Falsy(state.topic)
         /\ BriefAnswered(state)
    [] op = "setPageCount" ->
         /\ ~Falsy(state.language)
         /\ ~Falsy(state.topic)
         /\ ~FalsyNumber(state.templateId)
    [] op = "setGenerating" ->
         /\ ~Falsy(state.language)
         /\ ~Falsy(state.topic)
         /\ ~FalsyNumber(state.templateId)
         /\ ~FalsyNumber(state.pageCount)

\* C15: a forward transition (setLanguage, setTopic, setBriefAnswer,
\* completeBriefAnswers, setTemplate, setPageCount, setGenerating) called for
\* a user without FlowState, at another step than the one it expects, or
\* with an upstream field missing, returns its failure value and leaves the
\* flow map as it was.
C15_ForwardTransitionRejects ==
  [][LET op == last'.op
         t == last'.arg
     IN  (/\ op \in {"setLanguage", "setTopic", "setBriefAnswer",
                     "completeBriefAnswers", "setTemplate", "setPageCount",
                     "setGenerating"}
          /\ \/ t \notin DOMAIN flows
             \/ flows[t].step # ExpectedStep(op)
             \/ ~UpstreamPopulated(op, flows[t]))
         => /\ ~last'.res.ok
            /\ flows' = flows]_vars

\* C16: setTemplate returns false and changes nothing whenever one of the
\* four brief answers is missing or blank, and whenever completeBriefAnswers
\* has not succeeded yet (the state is at an earlier step).
C16_SetTemplateNeedsBriefAnswers ==
  [][LET t == last'.arg
     IN  (/\ last'.op = "setTemplate"
          /\ t \in DOMAIN flows
          /\ \/ ~BriefAnswered(flows[t])
             \/ flows[t].step \in {"awaiting_language", "awaiting_topic",
                                   "awaiting_brief_answer"})
         => /\ ~last'.res.ok
            /\ flows' = flows]_vars

\* setTemplate was refused at its own step because an answer is missing
C16_Witness ==
  /\ last.op = "setTemplate"
  /\ ~last.res.ok
  /\ 1 \in DOMAIN flows
  /\ flows[1].step = "awaiting_template"
  /\ ~Falsy(flows[1].language)
  /\ ~Falsy(flows[1].topic)
  /\ flows[1].briefAnswers # None
  /\ Cardinality(DOMAIN flows[1].briefAnswers[1]) = 3

\* C17: completeBriefAnswers succeeds only when all four brief answers are
\* non-empty: whatever it is called with, a FlowState at step
\* awaiting_template has the four brief answers.
C17_AwaitingTemplateHasBriefAnswers ==
  \A t \in DOMAIN flows :
    flows[t].step = "awaiting_template" => BriefAnswered(flows[t])

\* C18: setGenerating succeeds only from awaiting_image_preference with
\* language, topic, templateId and pageCount present; the resulting state is
\* at step generating, keeps those four values and the brief answers, and
\* holds the useImages flag of the call.
C18_SetGenerating ==
  [][LET t == last'.arg
     IN  (last'.op = "setGenerating" /\ last'.res.ok)
         => /\ t \in DOMAIN flows
            /\ flows[t].step = "awaiting_image_preference"
            /\ ~Falsy(flows[t].language)
            /\ ~Falsy(flows[t].topic)
            /\ ~FalsyNumber(flows[t].templateId)
            /\ ~FalsyNumber(flows[t].pageCount)
            /\ t \in DOMAIN flows'
            /\ flows'[t].step = "generating"
            /\ flows'[t].language = flows[t].language
            /\ flows'[t].topic = flows[t].topic
            /\ flows'[t].templateId = flows[t].templateId
            /\ flows'[t].pageCount = flows[t].pageCount
            /\ flows'[t].briefAnswers = flows[t].briefAnswers
            /\ flows'[t].useImages = Some(last'.res.input)
            /\ \A u \in DOMAIN flows \ {t} :
                 u \in DOMAIN flows' /\ flows'[u] = flows[u]]_vars

C18_Witness ==
  /\ last.op = "setGenerating"
  /\ last.res.ok
  /\ last.res.input = FALSE
  /\ flows[1].step = "generating"
  /\ flows[1].useImages = Some(FALSE)
  /\ BriefAnswered(flows[1])
  /\ 2 \in DOMAIN flows

(***************************************************************************)
(* Properties of the handler and the wizard (SpecBot)                      *)
(***************************************************************************)
\* C12 as stated: a run of the handler that was granted a reservation and
\* whose process does not end finishes with the document delivered or with
\* the failure message sent, never with neither.
C12_DeliveredOrFailureMessage ==
  \A h \in Handlers :
    hs[h].pc = "finally" => (hs[h].delivered \/ hs[h].failureSent)

\* C12, amended: such a run finishes with the document delivered, or with
\* the failure message sent, or, when the chat transport refuses the failure
\* message as well, with that refusal logged by the catch block; it never
\* finishes without the catch block having tried to send the failure
\* message unless the document went out.
C12_DeliveredOrFailureAttempted ==
  [][\A h \in Handlers :
       (hs'[h].pc = "finally" /\ hs[h].pc # "finally")
       => \/ hs'[h].delivered
          \/ hs'[h].failureSent
          \/ hs[h].pc = "catch"]_vars

\* generation failed and the failure message could not be sent
C12_Witness ==
  \E h \in Handlers :
    /\ hs[h].pc = "finally"
    /\ ~hs[h].delivered
    /\ ~hs[h].failureSent
    /\ presentations[hs[h].reservationId].status = "failed"

\* C11: every reservation that Reserve granted eventually has a terminal
\* status: its handler sets it to completed or failed while the process
\* keeps running, the recovery of the next process start sets it to failed
\* after the process ended; no row stays pending forever.
C11_EveryReservationTerminal ==
  \A i \in 1..MaxRecords :
    (i \in DOMAIN presentations /\ presentations[i].status = "pending")
    ~> (i \in DOMAIN presentations /\ presentations[i].status # "pending")

\* C13: when an invocation of the handler whose setGenerating succeeded
\* ends, on whatever path (document delivered, generation failed, Reserve
\* blocked, Reserve raising an error), the user's FlowState has been removed
\* by clearFlow.
C13_FlowClearedWhenHandlerEnds ==
  [][\A h \in Handlers :
       (hs[h].pc \notin {"idle", "down"} /\ hs'[h].pc = "idle")
       => hs[h].user \notin DOMAIN flows']_vars

\* C14 as stated: every successful setGenerating is followed by the
\* insertion of exactly one record, so an invocation that ends has inserted
\* its record.
C14_RecordIffTerminalStep ==
  [][\A h \in Handlers :
       (hs[h].pc \notin {"idle", "down"} /\ hs'[h].pc = "idle")
       => hs[h].reservationId # null]_vars

\* C14, amended: a record is inserted for a user only by an invocation of
\* the handler whose setGenerating succeeded for that user, and each such
\* invocation inserts at most one record: exactly one (pending, of that
\* user) when Reserve grants the reservation, none when Reserve blocks on
\* the quota or raises an error or the process ends first.
C14_RecordOnlyAfterTerminalStep ==
  [][LET n == Len(presentations)
     IN  /\ Len(presentations') \in {n, n + 1}
         /\ Len(presentations') = n + 1 =>
              \E h \in Handlers :
                /\ hs[h].pc = "counted"
                /\ hs[h].usedCount < DAILY_GENERATION_LIMIT
                /\ hs[h].state # None
                /\ hs[h].state[1].step = "generating"
                /\ hs[h].reservationId = null
                /\ hs'[h].reservationId = n + 1
                /\ presentations'[n + 1].userId = UserIdOf(h)
                /\ presentations'[n + 1].status = "pending"
         /\ \A h \in Handlers :
              /\ (hs[h].pc = "counted" /\ hs'[h].pc = "reserved")
                   => Len(presentations') = n + 1
              /\ (hs[h].pc = "counted" /\ hs'[h].pc = "blocked")
                   => /\ presentations' = presentations
                      /\ hs[h].usedCount >= DAILY_GENERATION_LIMIT
              /\ (hs[h].pc = "counted" /\ hs'[h].pc = "idle")
                   => presentations' = presentations
              /\ hs[h].reservationId # null
                   => hs'[h].reservationId \in {hs[h].reservationId, null}]_vars

\* one invocation holds its reservation while another one was blocked
C14_Witness ==
  \E h \in Handlers, g \in Handlers :
    /\ hs[h].pc = "reserved"
    /\ presentations[hs[h].reservationId].status = "pending"
    /\ hs[g].pc = "blocked"
    /\ hs[g].state # None
    /\ hs[g].reservationId = null
    /\ 1 \in DOMAIN flows
    /\ flows[1].step = "generating"

\* the FlowState that holds every value of Inputs at the given step
SuppliedState(step) ==
  [FlowState(step) EXCEPT
     !.language = Some(Inputs.language),
     !.topic = Some(Inputs.topic),
     !.templateId = Some(Inputs.templateId),
     !.pageCount = Some(Inputs.pageCount),
     !.briefAnswers =
        Some([key \in BriefAnswerKeys |->
                CASE key = "targetAudience" -> <<"students">>
                  [] key = "presenterRole" -> <<"teacher">>
                  [] key = "presentationGoal" -> <<"inform">>
                  [] key = "toneStyle" -> <<"formal">>])]

\* C19: from startFlow the sequence setLanguage, setTopic, four
\* setBriefAnswer, completeBriefAnswers, setTemplate, setPageCount,
\* setGenerating succeeds at every step and ends at step generating with
\* every supplied value; the generation that follows inserts one record,
\* pending, whose metadata is the supplied topic, language, template id,
\* page count and image flag, and finalization turns that record from
\* pending to completed.
C19_WizardToCompletedRecord ==
  [][LET w == wizard(flows, 1)
         g == setGenerating(w.flows, 1, Inputs.useImages)
         generating ==
           [SuppliedState("generating") EXCEPT
              !.useImages = Some(Inputs.useImages)]
         n == Len(presentations)
     IN  /\ w.result
         /\ w.flows[1] = SuppliedState("awaiting_image_preference")
         /\ g.result = Some(generating)
         /\ g.flows[1] = generating
         /\ \A h \in Handlers :
              /\ (hs[h].pc = "idle" /\ hs'[h].pc = "lock")
                   => /\ flows[1] = SuppliedState("awaiting_image_preference")
                      /\ flows'[1] = generating
                      /\ hs'[h].state = Some(generating)
              /\ (hs[h].pc = "counted" /\ hs'[h].pc = "reserved")
                   => /\ Len(presentations') = n + 1
                      /\ hs'[h].reservationId = n + 1
                      /\ presentations'[n + 1].status = "pending"
                      /\ presentations'[n + 1].metadata =
                           [prompt |-> Some(Inputs.topic),
                            language |-> Some(Inputs.language),
                            templateId |-> Some(Inputs.templateId),
                            pageCount |-> Some(Inputs.pageCount),
                            useImages |-> Some(Inputs.useImages)]
                      /\ \A i \in 1..n : presentations'[i] = presentations[i]
              /\ (hs[h].pc = "reserved" /\ hs'[h].pc = "finalized")
                   => LET id == hs[h].reservationId
                      IN  /\ presentations[id].status = "pending"
                          /\ presentations' =
                               [presentations EXCEPT
                                  ![id].status = "completed"]]_vars

\* the document of a completed record with the supplied metadata went out
C19_Witness ==
  \E h \in Handlers :
    /\ hs[h].pc = "finally"
    /\ hs[h].delivered
    /\ presentations[hs[h].reservationId].status = "completed"
    /\ presentations[hs[h].reservationId].metadata.prompt = Some(Inputs.topic)
    /\ presentations[hs[h].reservationId].metadata.pageCount
         = Some(Inputs.pageCount)

(***************************************************************************)
(* Properties of the slide generation (SpecSlides)                         *)
(***************************************************************************)
\* C20: generateSlides never fails for its caller: whatever keys are
\* configured and whatever the providers answer (success, error, malformed
\* response), it raises no error, does not stop before its return, and
\* returns exactly pageCount slides.
C20_GenerateSlidesAlwaysReturns ==
  cascade.phase = "slides" =>
    /\ cascade.pc \in {"start", "openai", "gemini", "done"}
    /\ cascade.pc \in {"start", "openai", "gemini"} => ENABLED NextSlides
    /\ cascade.pc = "done" =>
         /\ cascade.returned \in {"openai", "gemini", "fallback"}
         /\ Len(cascade.slides) = cascade.pageCount
         /\ \A i \in 1..cascade.pageCount : cascade.slides[i].pageNumber = i

\* OpenAI answered with too few slides, the first Gemini key was refused,
\* the second Gemini call failed otherwise: the fallback was returned
C20_Witness ==
  /\ cascade.phase = "slides"
  /\ cascade.pc = "done"
  /\ cascade.returned = "fallback"
  /\ cascade.calls = <<<<"openai", 0>>, <<"gemini", 1>>, <<"gemini", 2>>>>
  /\ cascade.error.name = "SyntaxError"
  /\ Len(cascade.slides) = 8

(***************************************************************************)
(* More properties of the flow map (SpecFlow)                              *)
(***************************************************************************)
\* C27: a backward transition moves to its earlier step, keeps the fields
\* of that step and drops the later ones: backToPageCount (from
\* awaiting_image_preference) keeps language, topic, templateId and brief
\* answers; backToTemplate (from awaiting_page_count) keeps language, topic
\* and brief answers; backToTopic (from a step between awaiting_topic and
\* awaiting_image_preference) keeps only language; from any other step each
\* is rejected and the flow map is unchanged.
C27_BackwardTransitions ==
  [][LET op == last'.op
         t == last'.arg
         from ==
           CASE op = "backToPageCount" -> {"awaiting_image_preference"}
             [] op = "backToTemplate" -> {"awaiting_page_count"}
             [] op = "backToTopic" ->
                  {"awaiting_topic", "awaiting_brief_answer",
                   "awaiting_template", "awaiting_page_count",
                   "awaiting_image_preference"}
         kept ==
           CASE op = "backToPageCount" ->
                  [FlowState("awaiting_page_count") EXCEPT
                     !.language = flows[t].language,
                     !.topic = flows[t].topic,
                     !.templateId = flows[t].templateId,
                     !.briefAnswers = flows[t].briefAnswers]
             [] op = "backToTemplate" ->
                  [FlowState("awaiting_template") EXCEPT
                     !.language = flows[t].language,
                     !.topic = flows[t].topic,
                     !.briefAnswers = flows[t].briefAnswers]
             [] op = "backToTopic" ->
                  [FlowState("awaiting_topic") EXCEPT
                     !.language = flows[t].language]
     IN  op \in {"backToPageCount", "backToTemplate", "backToTopic"}
         => IF t \in DOMAIN flows /\ flows[t].step \in from
              THEN /\ last'.res.ok
                   /\ flows' = [u \in DOMAIN flows |->
                                  IF u = t THEN kept ELSE flows[u]]
              ELSE /\ ~last'.res.ok
                   /\ flows' = flows]_vars

\* C28: in every FlowState reached by startFlow, set*, back* and clearFlow
\* calls: past awaiting_language the language is set; from
\* awaiting_brief_answer on the topic is set (and not blank from
\* awaiting_template on); from awaiting_page_count on templateId and the
\* four brief answers are set; from awaiting_image_preference on pageCount
\* is set.
C28_FlowFieldInvariant ==
  \A t \in DOMAIN flows :
    LET state == flows[t]
    IN  /\ state.step # "awaiting_language" => ~Falsy(state.language)
        /\ state.step \in {"awaiting_brief_answer", "awaiting_template",
                           "awaiting_page_count", "awaiting_image_preference",
                           "generating"} => state.topic # None
        /\ state.step \in {"awaiting_template", "awaiting_page_count",
                           "awaiting_image_preference", "generating"}
             => ~Falsy(state.topic)
        /\ state.step \in {"awaiting_page_count", "awaiting_image_preference",
                           "generating"}
             => ~FalsyNumber(state.templateId) /\ BriefAnswered(state)
        /\ state.step \in {"awaiting_image_preference", "generating"}
             => ~FalsyNumber(state.pageCount)

\* a state at awaiting_page_count that came back from the image question
C28_Witness ==
  /\ last.op = "backToPageCount"
  /\ last.res.ok
  /\ flows[1].step = "awaiting_page_count"
  /\ flows[1].templateId = Some(2)
  /\ flows[1].pageCount = None
  /\ BriefAnswered(flows[1])

\* C29: step generating is terminal: for a user whose FlowState is at step
\* generating no set* and no back* transition succeeds, and the flow map
\* stays as it is; only clearFlow and startFlow change that state.
C29_GeneratingIsTerminal ==
  [][LET t == last'.arg
     IN  (/\ t \in DOMAIN flows
          /\ flows[t].step = "generating"
          /\ last'.op \notin {"none", "startFlow", "clearFlow"})
         => /\ ~last'.res.ok
            /\ flows' = flows]_vars

\* C30: at step awaiting_brief_answer (language and topic present)
\* setBriefAnswer with a non-blank answer stores the trimmed answer under
\* its key and leaves every other answer, every other field and the step as
\* they were; with a blank or whitespace-only answer it is rejected and
\* changes nothing.
C30_SetBriefAnswerAccumulates ==
  [][LET t == last'.arg
         key == last'.res.input[1]
         answer == last'.res.input[2]
         old == flows[t].briefAnswers[1]
     IN  (/\ last'.op = "setBriefAnswer"
          /\ t \in DOMAIN flows
          /\ flows[t].step = "awaiting_brief_answer"
          /\ ~Falsy(flows[t].language)
          /\ ~Falsy(flows[t].topic))
         => IF trim(answer) = <<>>
              THEN ~last'.res.ok /\ flows' = flows
              ELSE /\ last'.res.ok
                   /\ DOMAIN flows' = DOMAIN flows
                   /\ \A u \in DOMAIN flows \ {t} : flows'[u] = flows[u]
                   /\ flows'[t].briefAnswers # None
                   /\ DOMAIN flows'[t].briefAnswers[1] = DOMAIN old \cup {key}
                   /\ flows'[t].briefAnswers[1][key] = trim(answer)
                   /\ \A k \in DOMAIN old \ {key} :
                        flows'[t].briefAnswers[1][k] = old[k]
                   /\ [flows'[t] EXCEPT !.briefAnswers = None]
                        = [flows[t] EXCEPT !.briefAnswers = None]]_vars

\* a third answer was stored next to two earlier ones, the message id of
\* the topic question still in the state
C30_Witness ==
  /\ last.op = "setBriefAnswer"
  /\ last.res.ok
  /\ flows[1].step = "awaiting_brief_answer"
  /\ flows[1].askTopicMessageId = Some(7)
  /\ Cardinality(DOMAIN flows[1].briefAnswers[1]) = 3
  /\ flows[1].briefAnswers[1][last.res.input[1]] = <<"students">>

(***************************************************************************)
(* SpecImages: one call of attachImagesToSlides for each number of Serper  *)
(* keys and of slides; every search and every download gets some response. *)
(* The cascade variable holds the locals of attachImagesToSlides and of    *)
(* fetchSerperImageForSlide.                                               *)
(***************************************************************************)
MaxSerperKeys == 2
MaxSlides == 3

\* [...new Set(queryCandidates)]: first occurrences, in order
RECURSIVE unique(_)
unique(s) ==
  IF s = <<>> THEN <<>>
  ELSE LET rest == unique(SubSeq(s, 1, Len(s) - 1))
           x == s[Len(s)]
       IN  IF \E i \in 1..Len(rest) : rest[i] = x THEN rest
           ELSE Append(rest, x)

\* lines 901-905: each candidate with whitespace collapsed and trimmed,
\* the empty ones skipped
RECURSIVE nonEmptyQueries(_)
nonEmptyQueries(candidates) ==
  IF candidates = <<>> THEN <<>>
  ELSE LET query == trim(collapseSpaces(Head(candidates)))
       IN  IF query = <<>> THEN nonEmptyQueries(Tail(candidates))
           ELSE <<query>> \o nonEmptyQueries(Tail(candidates))

\* lines 892-899: the candidate queries of a slide in the order tried
QueryCandidates(params, topic, slide) ==
  nonEmptyQueries(unique(<<params.query,
                           buildImageSearchQuery(topic, slide),
                           slide.title, <<topic>>>>))

\* the parameters buildImageSearchParams can return for the slide: the
\* heuristic ones, or a query corrected by a provider
CorrectedParams(topic, language, slide) ==
  LET fallback == [query |-> buildImageSearchQuery(topic, slide),
                   gl |-> getDefaultSerperLocale(language).gl,
                   hl |-> getDefaultSerperLocale(language).hl]
  IN  {fallback, [fallback EXCEPT !.query = <<"climate", " ", "policy">>]}

isSerperPermissionErrorWrong(error) == FALSE

\* details "quota exceeded" matches the expression of line 553
isSerperPermissionError(error) ==
  IF error.name # "SerperApiError" THEN FALSE
  ELSE \/ error.status = 401
       \/ error.status = 403
       \/ error.status = 429
       \/ error.details = "quota exceeded"

extractSerperImageUrlWrong(images) ==
  IF images = <<>> THEN None ELSE Some(images[1])

\* payload.images: url is imageUrl ?? link of the first image that has one
extractSerperImageUrl(images) ==
  IF images = <<>> THEN None
  ELSE IF trim(images[1]) # <<>> THEN Some(trim(images[1]))
  ELSE None

SearchResponses ==
  [kind : {"reject"}, status : {0}, details : {""}, images : {<<>>}]
  \cup [kind : {"http"}, status : {403, 500},
        details : {"", "quota exceeded"}, images : {<<>>}]
  \cup [kind : {"ok"}, status : {200}, details : {""},
        images : {<<>>, << <<" ">> >>,
                  << <<" ", "https://img.example/1.png", " ">> >>}]

NoSearch == [kind |-> "none", status |-> 0, details |-> "", images |-> <<>>]

\* result: [ok, imageUrl, error]
searchSerperImage(response) ==
  CASE response.kind = "reject" ->
         [ok |-> FALSE, imageUrl |-> None,
          error |-> [name |-> "TypeError", status |-> 0, details |-> ""]]
    [] response.kind = "http" ->
         [ok |-> FALSE, imageUrl |-> None,
          error |-> [name |-> "SerperApiError", status |-> response.status,
                     details |-> response.details]]
    [] response.kind = "ok" ->
         [ok |-> TRUE, imageUrl |-> extractSerperImageUrl(response.images),
          error |-> NoError]

DownloadResponses ==
  [kind : {"reject"}, contentType : {None}]
  \cup [kind : {"http"}, contentType : {None}]
  \cup [kind : {"ok"},
        contentType : {None, Some(<<"image/png", "; charset=binary">>),
                       Some(<<"text/html">>)}]

\* result: [ok, url]; the text of the data URL, the bytes as one piece
fetchImageAsDataUrl(imageUrl, response) ==
  IF response.kind # "ok" THEN [ok |-> FALSE, url |-> <<>>]
  ELSE LET mediaType ==
             IF response.contentType # None
                /\ response.contentType[1][1] \in {"image/png"}
               THEN response.contentType[1][1] ELSE "image/jpeg"
       IN  [ok |-> TRUE,
            url |-> <<"data:", mediaType, ";base64,", "base64 of the body">>]

withImageUrlWrong(slide, imageUrl) ==
  [pageNumber |-> slide.pageNumber, imageUrl |-> imageUrl]

\* { ...slide, imageUrl }
withImageUrl(slide, imageUrl) ==
  [f \in DOMAIN slide \cup {"imageUrl"} |->
     IF f = "imageUrl" THEN imageUrl ELSE slide[f]]

\* attachImagesToSlides has been called.  slide is the position of the loop
\* of line 847, candidate and key those of the loops of lines 901 and 907;
\* queryCandidates[i] holds the candidate lists fetchSerperImageForSlide
\* can build for slide i, one for each result of buildImageSearchParams;
\* searched is the last slide a search was made for, permissionAt the first
\* slide during which a key signalled a permission error, stoppedAt the
\* slide whose search threw
ImagesStart(serperApiKeys, n, language) ==
  LET slides == SubSeq(buildFallbackSlides(Inputs.topic, 4, language), 1, n)
  IN  [phase |-> "images", pc |-> "start",
       serperApiKeys |-> serperApiKeys,
       topic |-> Inputs.topic, language |-> language, slides |-> slides,
       queryCandidates |->
         [i \in 1..n |->
            {QueryCandidates(params, Inputs.topic, slides[i]) :
               params \in CorrectedParams(Inputs.topic, language, slides[i])}],
       updatedSlides |-> <<>>, shouldStopImageSearch |-> FALSE, slide |-> 0,
       candidates |-> <<>>, candidate |-> 0, key |-> 0, imageUrl |-> None,
       response |-> NoSearch, searched |-> 0, permissionAt |-> 0,
       stoppedAt |-> 0]

InitImages ==
  /\ clock = 0
  /\ presentations = <<>>
  /\ last = NoCall
  /\ hs = [h \in Handlers |-> IdleHandler]
  /\ rowLock = [u \in UserIds |-> 0]
  /\ flows = NoFlows
  /\ cascade \in {ImagesStart(k, n, Inputs.language) :
                    k \in 0..MaxSerperKeys, n \in 1..MaxSlides}

\* updatedSlides.push(...) and the next turn of the loop of line 847
pushSlide(c, slide) ==
  [c EXCEPT !.updatedSlides = Append(@, slide), !.pc = "slide",
            !.slide = @ + 1, !.candidates = <<>>, !.candidate = 0,
            !.key = 0, !.imageUrl = None]

\* lines 835-845
attachImagesToSlides ==
  /\ cascade.pc = "start"
  /\ cascade' =
       IF cascade.serperApiKeys = 0
         THEN [cascade EXCEPT !.pc = "done", !.updatedSlides = cascade.slides]
         ELSE [cascade EXCEPT !.pc = "slide", !.slide = 1]
  /\ UNCHANGED <<clock, presentations, last, hs, rowLock, flows>>

\* lines 847-858 and 888-903: the head of the loop over the slides, and the
\* beginning of fetchSerperImageForSlide up to the first search
fetchSerperImageForSlide ==
  /\ cascade.pc = "slide"
  /\ LET ended == cascade.slide > Len(cascade.slides)
         skipped == ~ended /\ cascade.shouldStopImageSearch
     IN  \E candidates \in
              IF ended \/ skipped THEN {<<>>}
              ELSE cascade.queryCandidates[cascade.slide] :
           cascade' =
             IF ended THEN [cascade EXCEPT !.pc = "done"]
             ELSE IF skipped \/ candidates = <<>>
               THEN pushSlide(cascade, cascade.slides[cascade.slide])
             ELSE [cascade EXCEPT !.pc = "search",
                                  !.candidates = candidates,
                                  !.candidate = 1, !.key = 1]
  /\ UNCHANGED <<clock, presentations, last, hs, rowLock, flows>>

\* lines 907-947: one search, with the catch of lines 916-939 and, when the
\* error leaves fetchSerperImageForSlide, the catch of lines 860-875
trySearch ==
  /\ cascade.pc = "search"
  /\ \E response \in SearchResponses :
       LET r == searchSerperImage(response)
           slide == cascade.slides[cascade.slide]
           permission == ~r.ok /\ isSerperPermissionError(r.error)
           called == [cascade EXCEPT
                        !.response = response,
                        !.searched = cascade.slide,
                        !.permissionAt =
                          IF permission /\ @ = 0 THEN cascade.slide ELSE @]
           hasNextKey == cascade.key < cascade.serperApiKeys
           hasNextCandidate == cascade.candidate < Len(cascade.candidates)
       IN  cascade' =
             IF r.ok /\ r.imageUrl # None
               THEN [called EXCEPT !.pc = "download",
                                   !.imageUrl = r.imageUrl]
             ELSE IF permission /\ ~hasNextKey
               THEN pushSlide([called EXCEPT
                                 !.shouldStopImageSearch = TRUE,
                                 !.stoppedAt = cascade.slide],
                              slide)
             ELSE IF hasNextKey THEN [called EXCEPT !.key = @ + 1]
             ELSE IF hasNextCandidate
               THEN [called EXCEPT !.candidate = @ + 1, !.key = 1]
             ELSE pushSlide(called, slide)
  /\ UNCHANGED <<clock, presentations, last, hs, rowLock, flows>>

\* lines 953-962 and 859: the found image is embedded, or its address kept
tryDownload ==
  /\ cascade.pc = "download"
  /\ \E response \in DownloadResponses :
       LET r == fetchImageAsDataUrl(cascade.imageUrl[1], response)
           imageUrl == IF r.ok THEN r.url ELSE cascade.imageUrl[1]
       IN  cascade' =
             pushSlide(cascade,
                       withImageUrl(cascade.slides[cascade.slide], imageUrl))
  /\ UNCHANGED <<clock, presentations, last, hs, rowLock, flows>>

NextImages ==
  \/ attachImagesToSlides
  \/ fetchSerperImageForSlide
  \/ trySearch
  \/ tryDownload

SpecImages == InitImages /\ [][NextImages]_vars

(***************************************************************************)
(* More properties of the slide generation (SpecSlides)                    *)
(***************************************************************************)
\* the provider call of this step delivered parsable content
Answered(response) == response.kind = "content" /\ response.content.json

\* the number of slides in that content, 0 without a slides array
SlidesIn(response) ==
  IF response.content.slides = None THEN 0
  ELSE Len(response.content.slides[1])

\* a provider call was made in this step
Attempt == cascade'.calls # cascade.calls

\* a provider call of the slide generation was made in this step
SlidesAttempt == cascade.phase = "slides" /\ Attempt

\* C21 as stated: an attempt whose response does not hold exactly pageCount
\* slides is a failed attempt: the response is not accepted and the cascade
\* goes on to the next Gemini key, or from OpenAI to Gemini, when there is
\* one, instead of stopping.
C21_MismatchProceedsToNext ==
  [][(/\ SlidesAttempt
      /\ Answered(cascade'.response)
      /\ SlidesIn(cascade'.response) # cascade.pageCount)
     => /\ cascade'.returned \notin {"openai", "gemini"}
        /\ (cascade.pc = "openai" /\ cascade.geminiApiKeys > 0)
             => cascade'.pc = "gemini" /\ cascade'.index = 1
        /\ (cascade.pc = "gemini" /\ cascade.index < cascade.geminiApiKeys)
             => cascade'.pc = "gemini" /\ cascade'.index = cascade.index + 1]_vars

\* C21, amended: an attempt whose response holds fewer than pageCount
\* slides (or no slides array) is a failed attempt and is never accepted:
\* after OpenAI the cascade goes on to the first Gemini key when one is
\* configured, after a Gemini key it ends the Gemini loop, tries no further
\* key and returns the fallback.  A response with more than pageCount
\* slides is accepted, cut to its first pageCount slides.
C21_ShortResponseFailsAttempt ==
  [][(SlidesAttempt /\ Answered(cascade'.response))
     => LET n == SlidesIn(cascade'.response)
            provider == cascade.pc
        IN  /\ n < cascade.pageCount =>
                 /\ cascade'.returned \notin {"openai", "gemini"}
                 /\ cascade'.error.name = "Error"
                 /\ IF provider = "openai" /\ cascade.geminiApiKeys > 0
                      THEN cascade'.pc = "gemini" /\ cascade'.index = 1
                      ELSE /\ cascade'.pc = "done"
                           /\ cascade'.returned = "fallback"
                           /\ cascade'.index = cascade.index
            /\ n >= cascade.pageCount =>
                 /\ cascade'.pc = "done"
                 /\ cascade'.returned = provider
                 /\ cascade'.slides =
                      normalizeSlides(
                        Some(SubSeq(cascade'.response.content.slides[1], 1,
                                    cascade.pageCount)),
                        cascade.pageCount, cascade.language)]_vars

\* the first of two Gemini keys answered with one slide too few: the
\* fallback was returned and the second key never called
C21_Witness ==
  /\ cascade.phase = "slides"
  /\ cascade.pc = "done"
  /\ cascade.returned = "fallback"
  /\ cascade.geminiApiKeys = 2
  /\ cascade.calls = <<<<"gemini", 1>>>>
  /\ Answered(cascade.response)
  /\ SlidesIn(cascade.response) = cascade.pageCount - 1

KeyRefused(error) ==
  /\ error.name = "GeminiApiError"
  /\ \/ error.status = 400 /\ error.details = "API_KEY_INVALID"
     \/ error.status = 403 /\ error.details = "PERMISSION_DENIED"

\* C22: in the Gemini key loop of topic normalization, of slide generation
\* and of image-query correction, after a failed attempt the next key is
\* tried if and only if the error is of the invalid-key or
\* permission-denied class and a next key exists; any other error ends the
\* loop at once, no further key is tried and the phase returns its fallback.
C22_NextKeyIffKeyRefused ==
  [][(/\ cascade.pc = "gemini"
      /\ Attempt
      /\ cascade'.returned # "gemini")
     => /\ cascade.phase \in Phases
        /\ cascade'.calls = Append(cascade.calls, <<"gemini", cascade.index>>)
        /\ IF KeyRefused(cascade'.error)
              /\ cascade.index < cascade.geminiApiKeys
             THEN /\ cascade'.pc = "gemini"
                  /\ cascade'.index = cascade.index + 1
                  /\ cascade'.returned = "none"
             ELSE /\ cascade'.pc = "done"
                  /\ cascade'.index = cascade.index
                  /\ cascade'.returned = "fallback"]_vars

\* image-query correction: the first Gemini key was refused as invalid and
\* the second key is about to be tried
C22_Witness ==
  /\ cascade.phase = "imageQuery"
  /\ cascade.pc = "gemini"
  /\ cascade.index = 2
  /\ cascade.calls = <<<<"gemini", 1>>>>
  /\ cascade.error =
       [name |-> "GeminiApiError", status |-> 400,
        details |-> "API_KEY_INVALID"]
  /\ ENABLED tryGemini

PermissionSignalled(response) ==
  /\ response.kind = "http"
  /\ response.status \in {401, 403, 429} \/ response.details = "quota exceeded"

HasImage(slide) == "imageUrl" \in DOMAIN slide

\* C25 as stated: once the image provider has signalled a permission,
\* quota or authorization failure while slide k was processed, no search is
\* made for a slide after k, slide k and the later slides get no image, and
\* the slides before k keep the result they had.
C25_StopAfterPermissionFailure ==
  cascade.permissionAt # 0 =>
    /\ cascade.searched <= cascade.permissionAt
    /\ \A i \in 1..Len(cascade.updatedSlides) :
         i >= cascade.permissionAt => ~HasImage(cascade.updatedSlides[i])

\* C25, amended: a permission, quota or authorization failure signalled by
\* a key that is not the last configured key only moves the search of
\* slide k on to the next key for the same query.  When the last configured
\* key signals such a failure while slide k is processed, the search of
\* slide k ends, slide k gets no image, the stop flag is set, and from then
\* on no search is made for any later slide and each later slide is passed
\* on without an image.  The slides already processed keep their result.
C25_StopAfterLastKeyRefused ==
  [][/\ Len(cascade'.updatedSlides) >= Len(cascade.updatedSlides)
     /\ SubSeq(cascade'.updatedSlides, 1, Len(cascade.updatedSlides))
          = cascade.updatedSlides
     /\ (cascade.pc = "search" /\ PermissionSignalled(cascade'.response)) =>
          IF cascade.key < cascade.serperApiKeys
            THEN /\ cascade'.pc = "search"
                 /\ cascade'.slide = cascade.slide
                 /\ cascade'.candidate = cascade.candidate
                 /\ cascade'.key = cascade.key + 1
                 /\ ~cascade'.shouldStopImageSearch
                 /\ cascade'.updatedSlides = cascade.updatedSlides
            ELSE /\ cascade'.shouldStopImageSearch
                 /\ cascade'.stoppedAt = cascade.slide
                 /\ cascade'.pc = "slide"
                 /\ cascade'.slide = cascade.slide + 1
                 /\ cascade'.updatedSlides =
                      Append(cascade.updatedSlides,
                             cascade.slides[cascade.slide])
     /\ cascade.shouldStopImageSearch =>
          /\ cascade'.shouldStopImageSearch
          /\ cascade'.pc \in {"slide", "done"}
          /\ cascade'.searched = cascade.searched
          /\ cascade.searched = cascade.stoppedAt
          /\ \A i \in cascade.stoppedAt..Len(cascade'.updatedSlides) :
               cascade'.updatedSlides[i] = cascade.slides[i]]_vars

\* with two keys: during slide 1 the first key was refused and the second
\* found an image; during slide 2 both keys were refused; slide 3 was
\* passed on without a search
C25_Witness ==
  /\ cascade.pc = "done"
  /\ cascade.serperApiKeys = 2
  /\ Len(cascade.slides) = 3
  /\ cascade.permissionAt = 1
  /\ cascade.stoppedAt = 2
  /\ cascade.searched = 2
  /\ HasImage(cascade.updatedSlides[1])
  /\ cascade.updatedSlides[2] = cascade.slides[2]
  /\ cascade.updatedSlides[3] = cascade.slides[3]

\* the output slide is the input slide, with or without an imageUrl added
SameButImageUrl(in, out) ==
  /\ DOMAIN out \in {DOMAIN in, DOMAIN in \cup {"imageUrl"}}
  /\ \A f \in DOMAIN in : out[f] = in[f]

\* C26: attachImagesToSlides never fails: whatever the image provider and
\* the downloads answer (errors, empty results, failed downloads) it raises
\* no error, reaches its return, and returns as many slides as it was given,
\* in the same order, each equal to its input except for an optional
\* imageUrl.
C26_AttachImagesNeverFails ==
  /\ cascade.pc \in {"start", "slide", "search", "download", "done"}
  /\ cascade.pc # "done" => ENABLED NextImages
  /\ Len(cascade.updatedSlides) <= Len(cascade.slides)
  /\ \A i \in 1..Len(cascade.updatedSlides) :
       SameButImageUrl(cascade.slides[i], cascade.updatedSlides[i])
  /\ cascade.pc = "done" =>
       Len(cascade.updatedSlides) = Len(cascade.slides)

\* three slides: the first got an embedded image, the second the address of
\* an image whose download failed, the third none after a provider error
C26_Witness ==
  /\ cascade.pc = "done"
  /\ Len(cascade.updatedSlides) = 3
  /\ HasImage(cascade.updatedSlides[1])
  /\ cascade.updatedSlides[1].imageUrl[1] = "data:"
  /\ HasImage(cascade.updatedSlides[2])
  /\ cascade.updatedSlides[2].imageUrl = <<"https://img.example/1.png">>
  /\ ~HasImage(cascade.updatedSlides[3])
  /\ cascade.response.kind = "reject"

(***************************************************************************)
(* Order and number of the provider calls (SpecSlides), well-formed slides *)
(***************************************************************************)
\* the attempts of a phase in their fixed order: OpenAI when its key is
\* configured, then the Gemini keys as configured
AttemptOrder(c) ==
  (IF c.openAiApiKey THEN <<<<"openai", 0>>>> ELSE <<>>)
    \o [i \in 1..c.geminiApiKeys |-> <<"gemini", i>>]

\* C37: within one cascade phase the provider attempts happen in the fixed
\* order OpenAI (if its key is configured), then the Gemini keys in
\* configured order, each at most once; the first successful attempt ends
\* the phase with no later attempt; the phase ends after at most
\* 1 + (number of Gemini keys) provider calls.
C37_AttemptsInOrderAtMostOnce ==
  cascade.phase \in Phases =>
    /\ Len(cascade.calls) <= Len(AttemptOrder(cascade))
    /\ cascade.calls = SubSeq(AttemptOrder(cascade), 1, Len(cascade.calls))
    /\ Len(cascade.calls) <= 1 + cascade.geminiApiKeys
    /\ cascade.pc # "done" =>
         /\ cascade.returned = "none"
         /\ ENABLED NextSlides
    /\ cascade.pc = "done" => ~ENABLED NextSlides
    /\ cascade.returned \in {"openai", "gemini"} =>
         /\ cascade.pc = "done"
         /\ cascade.calls[Len(cascade.calls)][1] = cascade.returned
         /\ Len(cascade.calls) > 1 => cascade.error # NoError

\* topic normalization with all keys configured: OpenAI failed, the
\* Gemini keys but the last were refused, the last key succeeded
C37_Witness ==
  /\ cascade.phase = "topic"
  /\ cascade.pc = "done"
  /\ cascade.returned = "gemini"
  /\ cascade.openAiApiKey
  /\ cascade.geminiApiKeys = MaxKeys
  /\ Len(cascade.calls) = 1 + MaxKeys
  /\ cascade.calls[1] = <<"openai", 0>>

\* a text with something other than whitespace in it
NonBlank(text) == trim(text) # <<>>

ImageFound(response) ==
  /\ response.kind = "ok"
  /\ response.images # <<>>
  /\ trim(response.images[1]) # <<>>

\* C38: the search of a slide starts with the first candidate query and the
\* first key and tries, for each query, the keys in configured order; the
\* first answer with an image ends the search of the slide, no further
\* query or key being tried; an empty answer or an error that is not of
\* the permission class only moves the search to the next key, after the
\* last key to the next query, and after the last query the slide is
\* passed on without an image and the later slides are still searched.
C38_SearchOrderOfOneSlide ==
  [][/\ (cascade.pc = "slide" /\ cascade'.pc = "search") =>
          /\ cascade'.candidate = 1
          /\ cascade'.key = 1
          /\ cascade'.slide = cascade.slide
     /\ (cascade.pc = "search" /\ ImageFound(cascade'.response)) =>
          /\ cascade'.pc = "download"
          /\ cascade'.imageUrl = Some(trim(cascade'.response.images[1]))
          /\ cascade'.candidate = cascade.candidate
          /\ cascade'.key = cascade.key
     /\ cascade.pc = "download" =>
          /\ cascade'.pc = "slide"
          /\ cascade'.slide = cascade.slide + 1
          /\ cascade'.searched = cascade.searched
          /\ HasImage(cascade'.updatedSlides[cascade.slide])
     /\ (/\ cascade.pc = "search"
         /\ ~ImageFound(cascade'.response)
         /\ ~PermissionSignalled(cascade'.response)) =>
          /\ ~cascade'.shouldStopImageSearch
          /\ IF cascade.key < cascade.serperApiKeys
               THEN /\ cascade'.pc = "search"
                    /\ cascade'.slide = cascade.slide
                    /\ cascade'.candidate = cascade.candidate
                    /\ cascade'.key = cascade.key + 1
             ELSE IF cascade.candidate < Len(cascade.candidates)
               THEN /\ cascade'.pc = "search"
                    /\ cascade'.slide = cascade.slide
                    /\ cascade'.candidate = cascade.candidate + 1
                    /\ cascade'.key = 1
             ELSE /\ cascade'.pc = "slide"
                  /\ cascade'.slide = cascade.slide + 1
                  /\ cascade'.updatedSlides =
                       Append(cascade.updatedSlides,
                              cascade.slides[cascade.slide])]_vars

\* the second of two keys found an image for the third query of slide 2,
\* every search before it having come back empty or with a server error
C38_Witness ==
  /\ cascade.pc = "download"
  /\ cascade.slide = 2
  /\ cascade.serperApiKeys = 2
  /\ cascade.candidate = 3
  /\ cascade.key = 2
  /\ cascade.permissionAt = 0
  /\ ImageFound(cascade.response)

\* C39: a permission-class error from a key that is not the last configured
\* key makes the search go on with the next key for the same query; the
\* search of the slide is given up and the stop flag set exactly when the
\* last configured key answers with such an error.
C39_OnlyLastKeyStopsSearch ==
  [][/\ (cascade.pc = "search" /\ PermissionSignalled(cascade'.response)
         /\ cascade.key < cascade.serperApiKeys) =>
          /\ cascade'.pc = "search"
          /\ cascade'.slide = cascade.slide
          /\ cascade'.candidate = cascade.candidate
          /\ cascade'.key = cascade.key + 1
          /\ cascade'.shouldStopImageSearch = cascade.shouldStopImageSearch
     /\ (cascade'.shouldStopImageSearch /\ ~cascade.shouldStopImageSearch) <=>
          (/\ cascade.pc = "search"
           /\ PermissionSignalled(cascade'.response)
           /\ cascade.key = cascade.serperApiKeys)
     /\ (cascade'.shouldStopImageSearch /\ ~cascade.shouldStopImageSearch) =>
          /\ cascade'.pc = "slide"
          /\ cascade'.slide = cascade.slide + 1
          /\ ~HasImage(cascade'.updatedSlides[cascade.slide])]_vars

\* with two keys: the first key was refused for the second query and the
\* search is about to go on with the second key for the same query
C39_Witness ==
  /\ cascade.pc = "search"
  /\ cascade.serperApiKeys = 2
  /\ cascade.candidate = 2
  /\ cascade.key = 2
  /\ PermissionSignalled(cascade.response)
  /\ ~cascade.shouldStopImageSearch

(***************************************************************************)
(* More properties of the ledger (SpecLedger)                              *)
(***************************************************************************)
\* C34: nextAvailableAt is the instant the user becomes unblocked: when a
\* user is blocked with exactly DAILY_GENERATION_LIMIT counted records and
\* the table stays as it is, getGenerationAvailability and
\* consumeGeneration evaluated at now = nextAvailableAt report allowed,
\* and evaluated at any earlier time report blocked.
C34_NextAvailableAtUnblocks ==
  \A t \in RegisteredIds :
    LET q == getGenerationAvailability(presentations, t, clock)
    IN  (~q.allowed /\ q.usedToday = DAILY_GENERATION_LIMIT) =>
          /\ getGenerationAvailability(presentations, t,
                                       q.nextAvailableAt).allowed
          /\ consumeGeneration(presentations, t, EmptyMetadata,
                               q.nextAvailableAt,
                               q.nextAvailableAt).result.allowed
          /\ \A earlier \in clock..(q.nextAvailableAt - 1) :
               ~getGenerationAvailability(presentations, t, earlier).allowed

\* the rows of a user
RowsOf(P, userId) == {i \in DOMAIN P : P[i].userId = userId}

\* the user whose records the ledger call of this step works on: the caller
\* of consumeGeneration, the owner of the row updated; null when the call
\* names nobody's
ActingUser ==
  CASE last'.op = "consumeGeneration" ->
         IF last'.arg \in DOMAIN telegramUsers THEN telegramUsers[last'.arg].id
         ELSE null
    [] last'.op \in {"updateGenerationStatus",
                     "markGenerationAsFailedIfPending"} ->
         IF last'.arg \in DOMAIN presentations
           THEN presentations[last'.arg].userId ELSE null
    [] OTHER -> null

\* C35: users' quotas are independent: consumeGeneration,
\* updateGenerationStatus and markGenerationAsFailedIfPending applied to
\* the records of one user never change a record of another user, nor the
\* usedToday, remainingToday and nextAvailableAt that
\* getGenerationAvailability and consumeGeneration report for that other
\* user.
C35_QuotasIndependent ==
  [][last'.op \in {"consumeGeneration", "updateGenerationStatus",
                   "markGenerationAsFailedIfPending"}
     => \A a \in RegisteredIds :
          telegramUsers[a].id # ActingUser =>
            /\ RowsOf(presentations', telegramUsers[a].id)
                 = RowsOf(presentations, telegramUsers[a].id)
            /\ \A i \in RowsOf(presentations, telegramUsers[a].id) :
                 presentations'[i] = presentations[i]
            /\ getGenerationAvailability(presentations', a, clock)
                 = getGenerationAvailability(presentations, a, clock)
            /\ consumeGeneration(presentations', a, EmptyMetadata, clock,
                                 clock).result
                 = [consumeGeneration(presentations, a, EmptyMetadata, clock,
                                      clock).result
                    EXCEPT !.reservationId =
                             IF @ = null THEN null
                             ELSE Len(presentations') + 1]]_vars

\* user 1 has just been granted a second reservation while the table holds
\* a counted record of user 2
C35_Witness ==
  /\ last.op = "consumeGeneration"
  /\ last.arg = 1
  /\ last.res.allowed
  /\ last.res.usedToday = 2
  /\ Len(presentations) = 3
  /\ presentations[1].userId = telegramUsers[2].id
  /\ presentations[1].status = "completed"
  /\ getGenerationAvailability(presentations, 2, clock).usedToday = 1

(***************************************************************************)
(* The final button pressed twice, a wizard begun during a generation, the *)
(* flow map and the record's status (SpecBot)                              *)
(***************************************************************************)
\* C31: of the invocations of the handler that the final button of one run
\* of the wizard starts, setGenerating succeeds for at most one: the one it
\* succeeds for finds the step awaiting_image_preference and leaves the step
\* generating, at which setGenerating is refused, and no step of any
\* invocation brings the step awaiting_image_preference back (only the
\* user's answers do); each invocation issues one consumeGeneration and
\* inserts at most one record.
C31_OneReservationPerWizardRun ==
  [][LET n == Len(presentations)
     IN  /\ \A h \in Handlers :
              (hs[h].pc = "idle" /\ hs'[h].pc = "lock")
              => /\ 1 \in DOMAIN flows
                 /\ flows[1].step = "awaiting_image_preference"
                 /\ flows'[1].step = "generating"
                 /\ setGenerating(flows', 1, Inputs.useImages).result = None
                 /\ \A g \in Handlers \ {h} : hs'[g] = hs[g]
         /\ (/\ 1 \in DOMAIN flows'
             /\ flows'[1].step = "awaiting_image_preference"
             /\ flows' # flows)
              => hs' = hs /\ presentations' = presentations
         /\ Len(presentations') \in {n, n + 1}
         /\ Len(presentations') = n + 1
              => Cardinality({h \in Handlers :
                                /\ hs[h].reservationId = null
                                /\ hs'[h].reservationId = n + 1}) = 1
         /\ \A h \in Handlers :
              hs[h].reservationId # null
                => hs'[h].reservationId \in {hs[h].reservationId, null}]_vars

\* the first press holds its reservation, the flow is at generating, and a
\* second press of the same button is refused by setGenerating
C31_Witness ==
  \E h \in BotHandlers, g \in BotHandlers :
    /\ h # g
    /\ hs[h].pc = "reserved"
    /\ hs[g].pc = "idle"
    /\ 1 \in DOMAIN flows
    /\ flows[1].step = "generating"
    /\ setGenerating(flows, 1, Inputs.useImages).result = None
    /\ Cardinality({i \in DOMAIN presentations :
                      presentations[i].status = "pending"}) = 1

\* C32: the clearFlow at the end of an invocation removes only the
\* FlowState of its own generation: a FlowState that a wizard begun during
\* the generation has put in the map (its step is not generating) is still
\* there, unchanged, when the invocation has ended.
C32_ClearFlowKeepsNewWizard ==
  [][\A h \in Handlers :
       (/\ hs[h].pc = "finally"
        /\ hs'[h].pc = "idle"
        /\ hs[h].user \in DOMAIN flows
        /\ flows[hs[h].user].step # "generating")
       => flows' = flows]_vars

\* C33: a FlowState never outlives the finalization of its record: in no
\* state is the record of an invocation's reservation completed or failed
\* while the FlowState that this invocation's setGenerating stored (step
\* generating) is still in the map.
C33_FlowNeverOutlivesFinalization ==
  \A h \in Handlers :
    (/\ hs[h].reservationId # null
     /\ presentations[hs[h].reservationId].status \in {"completed", "failed"})
    => ~(/\ hs[h].user \in DOMAIN flows
         /\ hs[h].state = Some(flows[hs[h].user])
         /\ \A g \in Handlers \ {h} : hs[g].pc \in {"idle", "down"})

\* the invocation is in its catch or finally block because
\* updateGenerationStatus(completed) threw after generatePresentationPdf
\* had returned: the row was not set to completed
FinalizeRaised(h) ==
  /\ hs[h].pc \in {"catch", "finally"}
  /\ hs[h].generatedPresentation
  /\ presentations[hs[h].reservationId].status # "completed"

\* the steps of an invocation after updateGenerationStatus(completed) threw
FinalizeErrorHandled(h, messageSent) ==
  LET id == hs[h].reservationId
  IN  /\ (/\ hs[h].pc = "reserved"
          /\ hs'[h].pc = "catch"
          /\ hs'[h].generatedPresentation)
           => FinalizeRaised(h)' /\ presentations' = presentations
      /\ (FinalizeRaised(h) /\ hs[h].pc = "catch")
           => \/ hs'[h] = hs[h] /\ presentations'[id] = presentations[id]
              \/ hs'[h].pc = "down"
              \/ /\ hs'[h].pc = "finally"
                 /\ ~hs'[h].delivered
                 /\ messageSent => hs'[h].failureSent
                 /\ presentations' =
                      IF hs'[h].marked
                        THEN [presentations EXCEPT ![id].status = "failed"]
                        ELSE presentations
      /\ (FinalizeRaised(h) /\ hs[h].pc = "finally")
           => \/ hs'[h] = hs[h] /\ presentations'[id] = presentations[id]
              \/ hs'[h].pc = "down"
              \/ /\ hs'[h].pc = "idle"
                 /\ ~hs[h].delivered
                 /\ hs[h].marked => presentations'[id].status = "failed"
                 /\ hs[h].user \notin DOMAIN flows'

====
